---- MODULE Spec2Model ----
(***************************************************************************)
(* envpkt: the audit engine (src/core/audit.ts), the catalog resolver      *)
(* (src/core/catalog.ts) and the pattern registry (src/core/patterns.ts).  *)
(*                                                                         *)
(* Representation.                                                         *)
(*   Option<T>      a sequence of length <= 1: None is << >>, Some(x) is   *)
(*                  <<x>>.  An optional argument or field is the same.     *)
(*   object         a function whose domain is the set of fields that are  *)
(*                  present (a SecretMeta, a lifecycle section, a meta map)*)
(*   Date           an integer instant; MS_PER_DAY instants make one day.  *)
(*                  The source counts milliseconds; the model counts a     *)
(*                  coarser tick so that instants fit the checker's ints.  *)
(*   date string    "YYYY-MM-DD" as the record [y, m, d] of its three      *)
(*                  numeric fields; parseDate computes the instant of      *)
(*                  midnight UTC from the civil calendar.                  *)
(***************************************************************************)
EXTENDS Integers, Sequences, FiniteSets, TLC

VARIABLES
    config,         \* audit: the EnvpktConfig handed to computeAudit
    fnoxKeys,       \* audit: the optional known-key set handed to computeAudit
    clock,          \* the wall clock, what `new Date()` returns now
    auditArgs,      \* Option of the `today` argument of the last computeAudit call
    audit,          \* Option of the AuditResult the last computeAudit call returned
    auditAt,        \* Option of the wall-clock instant of the last call
    replayed,       \* the last call repeated the arguments of the call before it, later
    agentConfig,    \* resolve: the agent's EnvpktConfig handed to resolveConfig
    fs,             \* resolve: what is stored at the catalog path
    resolved,       \* Option of the Either the last resolveConfig call returned
    catalogLoads,   \* number of loadConfig calls the last resolveConfig call made
    probe,          \* patterns: the name and value handed to the matching functions
    matched,        \* Option of the Option<MatchResult> the last matchEnvVar call returned
    shape,          \* Option of the Option the last matchValueShape call returned
    derived,        \* Option of the string the last deriveServiceFromName call returned
    env,            \* patterns: the entries of the environment handed to scanEnv
    scanned,        \* Option of the list the last scanEnv call returned
    checked,        \* drift: Option of the CheckResult the last envCheck call returned
    auditOpts,      \* cli: the options the audit command is run with
    printed,        \* cli: Option of the audit the command handed to its formatter
    exitCode,       \* cli: Option of the code the command handed to process.exit
    bootOpts,       \* boot: the BootOptions handed to bootSafe
    configFile,     \* boot: what is stored at the resolved config path
    identity,       \* boot: what unwrapping the agent's identity file yields
    fnoxCli,        \* boot: whether fnox is installed and what its export yields
    processEnv,     \* boot: process.env, a record of the variables that are set
    booted          \* boot: Option of the Either the last bootSafe call returned

vars == <<config, fnoxKeys, clock, auditArgs, audit, auditAt, replayed,
          agentConfig, fs, resolved, catalogLoads,
          probe, matched, shape, derived, env, scanned,
          checked, auditOpts, printed, exitCode,
          bootOpts, configFile, identity, fnoxCli, processEnv, booted>>

auditVars == <<config, fnoxKeys, clock, auditArgs, audit, auditAt, replayed>>
resolveVars == <<agentConfig, fs, resolved, catalogLoads>>
patternVars == <<probe, matched, shape, derived, env, scanned>>
toolVars == <<checked, auditOpts, printed, exitCode,
              bootOpts, configFile, identity, fnoxCli, processEnv, booted>>

-----------------------------------------------------------------------------
(* Option                                                                  *)

None == << >>
Some(x) == <<x>>
isSome(o) == o # << >>
isNone(o) == o = << >>
get(o) == o[1]

\* Option(obj?.field)
Field(obj, f) == IF f \in DOMAIN obj THEN Some(obj[f]) ELSE None

\* opt ?? dflt
OrElse(o, dflt) == IF isSome(o) THEN get(o) ELSE dflt

-----------------------------------------------------------------------------
(* Bounds                                                                  *)

TicksPerDay == 2        \* resolution of an instant: ticks in one day
MaxTicks == 1           \* how far the wall clock advances past its start
MaxEnvSize == 2         \* the most variables an environment handed to scanEnv holds

-----------------------------------------------------------------------------
(* Dates                                                                   *)

MS_PER_DAY == TicksPerDay
WARN_BEFORE_DAYS == 30
DefaultStaleWarningDays == 90

IsLeap(y) == (y % 4 = 0 /\ y % 100 # 0) \/ y % 400 = 0

DaysInMonth(y, m) ==
    IF m = 2 THEN (IF IsLeap(y) THEN 29 ELSE 28)
    ELSE IF m \in {4, 6, 9, 11} THEN 30 ELSE 31

\* leap years before year y, and the days from 1970-01-01 to the start of y
LeapsBefore(y) == ((y - 1) \div 4) - ((y - 1) \div 100) + ((y - 1) \div 400)
DaysBeforeYear(y) == 365 * (y - 1970) + LeapsBefore(y) - LeapsBefore(1970)

RECURSIVE DaysBeforeMonth(_, _)
DaysBeforeMonth(y, m) == IF m <= 1 THEN 0 ELSE DaysInMonth(y, m - 1) + DaysBeforeMonth(y, m - 1)

\* new Date(dateStr + "T00:00:00Z").getTime(), NaN when a field is out of range
DateUTC(s) == (DaysBeforeYear(s.y) + DaysBeforeMonth(s.y, s.m) + (s.d - 1)) * MS_PER_DAY

IsValidDateStr(s) ==
    /\ s.y \in 0..9999
    /\ s.m \in 1..12
    /\ s.d \in 1..DaysInMonth(s.y, s.m)

\* parseDate without the NaN test
parseDate_NoNaNCheck(dateStr) == Some(DateUTC(dateStr))

parseDate(dateStr) == IF IsValidDateStr(dateStr) THEN Some(DateUTC(dateStr)) ELSE None

daysBetween(from, to) == (to - from) \div MS_PER_DAY

\* Option.flatMap(parseDate), Option.map(f)
flatMapParse(o) == IF isSome(o) THEN parseDate(get(o)) ELSE None

-----------------------------------------------------------------------------
(* Audit engine                                                            *)

IssueExpired == [msg |-> "Secret has expired"]
IssueExpiring(d) == [msg |-> "Expires in N days", n |-> d]
IssueStale == [msg |-> "Secret is stale (no rotation detected)"]
IssueMissing == [msg |-> "Key not found in fnox"]
IssueNoExpiration == [msg |-> "Missing required expiration date"]
IssueNoService == [msg |-> "Missing required service"]

\* issues.push(x) when c
PushIf(c, x) == IF c THEN <<x>> ELSE << >>

\* classifySecret with the missing test ahead of the expired test
SecretStatusOf_MissingFirst(isExpired, isMissing, isMissingMetadata, isExpiringSoon, isStale) ==
    IF isMissing THEN "missing"
    ELSE IF isExpired THEN "expired"
    ELSE IF isMissingMetadata THEN "missing_metadata"
    ELSE IF isExpiringSoon THEN "expiring_soon"
    ELSE IF isStale THEN "stale"
    ELSE "healthy"

\* Cond.of().when(..).elseWhen(..).else(..) of classifySecret
SecretStatusOf(isExpired, isMissing, isMissingMetadata, isExpiringSoon, isStale) ==
    IF isExpired THEN "expired"
    ELSE IF isMissing THEN "missing"
    ELSE IF isMissingMetadata THEN "missing_metadata"
    ELSE IF isExpiringSoon THEN "expiring_soon"
    ELSE IF isStale THEN "stale"
    ELSE "healthy"

\* the expired test one day late
isExpiredOf_DayLate(daysRemaining) == isSome(daysRemaining) /\ get(daysRemaining) < -1

isExpiredOf(daysRemaining) == isSome(daysRemaining) /\ get(daysRemaining) < 0

\* the warning window with its upper end excluded
isExpiringSoonOf_Exclusive(daysRemaining) ==
    isSome(daysRemaining) /\ get(daysRemaining) >= 0 /\ get(daysRemaining) < WARN_BEFORE_DAYS

isExpiringSoonOf(daysRemaining) ==
    isSome(daysRemaining) /\ get(daysRemaining) >= 0 /\ get(daysRemaining) <= WARN_BEFORE_DAYS

isStaleOf(daysSinceCreated, staleWarningDays) ==
    isSome(daysSinceCreated) /\ get(daysSinceCreated) > staleWarningDays

\* the missing test without the guard on an empty known-key set
isMissingOf_NoSizeCheck(key, keys) == key \notin keys

isMissingOf(key, keys) == Cardinality(keys) > 0 /\ key \notin keys

\* classifySecret with the issues derived from the status, one condition at most
classifySecret_IssuesByStatus(key, meta, keys, staleWarningDays, requireExpiration, requireService, today) ==
    LET created == flatMapParse(Field(meta, "created"))
        expires == flatMapParse(Field(meta, "expires"))
        service == Field(meta, "service")
        daysRemaining == IF isSome(expires) THEN Some(daysBetween(today, get(expires))) ELSE None
        daysSinceCreated == IF isSome(created) THEN Some(daysBetween(get(created), today)) ELSE None
        isExpired == isExpiredOf(daysRemaining)
        isExpiringSoon == isExpiringSoonOf(daysRemaining)
        isStale == isStaleOf(daysSinceCreated, staleWarningDays)
        isMissing == isMissingOf(key, keys)
        isMissingMetadata == (requireExpiration /\ isNone(expires)) \/ (requireService /\ isNone(service))
        status == SecretStatusOf(isExpired, isMissing, isMissingMetadata, isExpiringSoon, isStale)
        issues == PushIf(status = "expired", IssueExpired)
                  \o PushIf(status = "expiring_soon", IssueExpiring(OrElse(daysRemaining, 0)))
                  \o PushIf(status = "stale", IssueStale)
                  \o PushIf(status = "missing", IssueMissing)
                  \o PushIf(status = "missing_metadata" /\ requireExpiration /\ isNone(expires), IssueNoExpiration)
                  \o PushIf(status = "missing_metadata" /\ requireService /\ isNone(service), IssueNoService)
    IN  [ key            |-> key,
          service        |-> service,
          status         |-> SecretStatusOf(isExpired, isMissing, isMissingMetadata, isExpiringSoon, isStale),
          days_remaining |-> daysRemaining,
          rotation_url   |-> Field(meta, "rotation_url"),
          purpose        |-> Field(meta, "purpose"),
          created        |-> Field(meta, "created"),
          expires        |-> Field(meta, "expires"),
          issues         |-> issues ]

\* classifySecret with the issues pushed in the order of the status chain
classifySecret_StatusOrder(key, meta, keys, staleWarningDays, requireExpiration, requireService, today) ==
    LET created == flatMapParse(Field(meta, "created"))
        expires == flatMapParse(Field(meta, "expires"))
        service == Field(meta, "service")
        daysRemaining == IF isSome(expires) THEN Some(daysBetween(today, get(expires))) ELSE None
        daysSinceCreated == IF isSome(created) THEN Some(daysBetween(get(created), today)) ELSE None
        isExpired == isExpiredOf(daysRemaining)
        isExpiringSoon == isExpiringSoonOf(daysRemaining)
        isStale == isStaleOf(daysSinceCreated, staleWarningDays)
        isMissing == isMissingOf(key, keys)
        isMissingMetadata == (requireExpiration /\ isNone(expires)) \/ (requireService /\ isNone(service))
        issues == PushIf(isExpired, IssueExpired)
                  \o PushIf(isMissing, IssueMissing)
                  \o PushIf(isMissingMetadata /\ requireExpiration /\ isNone(expires), IssueNoExpiration)
                  \o PushIf(isMissingMetadata /\ requireService /\ isNone(service), IssueNoService)
                  \o PushIf(isExpiringSoon, IssueExpiring(OrElse(daysRemaining, 0)))
                  \o PushIf(isStale, IssueStale)
    IN  [ key            |-> key,
          service        |-> service,
          status         |-> SecretStatusOf(isExpired, isMissing, isMissingMetadata, isExpiringSoon, isStale),
          days_remaining |-> daysRemaining,
          rotation_url   |-> Field(meta, "rotation_url"),
          purpose        |-> Field(meta, "purpose"),
          created        |-> Field(meta, "created"),
          expires        |-> Field(meta, "expires"),
          issues         |-> issues ]

classifySecret(key, meta, keys, staleWarningDays, requireExpiration, requireService, today) ==
    LET created == flatMapParse(Field(meta, "created"))
        expires == flatMapParse(Field(meta, "expires"))
        service == Field(meta, "service")
        daysRemaining == IF isSome(expires) THEN Some(daysBetween(today, get(expires))) ELSE None
        daysSinceCreated == IF isSome(created) THEN Some(daysBetween(get(created), today)) ELSE None
        isExpired == isExpiredOf(daysRemaining)
        isExpiringSoon == isExpiringSoonOf(daysRemaining)
        isStale == isStaleOf(daysSinceCreated, staleWarningDays)
        isMissing == isMissingOf(key, keys)
        isMissingMetadata == (requireExpiration /\ isNone(expires)) \/ (requireService /\ isNone(service))
        issues == PushIf(isExpired, IssueExpired)
                  \o PushIf(isExpiringSoon, IssueExpiring(OrElse(daysRemaining, 0)))
                  \o PushIf(isStale, IssueStale)
                  \o PushIf(isMissing, IssueMissing)
                  \o PushIf(isMissingMetadata /\ requireExpiration /\ isNone(expires), IssueNoExpiration)
                  \o PushIf(isMissingMetadata /\ requireService /\ isNone(service), IssueNoService)
    IN  [ key            |-> key,
          service        |-> service,
          status         |-> SecretStatusOf(isExpired, isMissing, isMissingMetadata, isExpiringSoon, isStale),
          days_remaining |-> daysRemaining,
          rotation_url   |-> Field(meta, "rotation_url"),
          purpose        |-> Field(meta, "purpose"),
          created        |-> Field(meta, "created"),
          expires        |-> Field(meta, "expires"),
          issues         |-> issues ]

\* Object.keys / Object.entries order: the keys of an object in insertion
\* order, which the model fixes as the order of KeyOrder.
KeyOrder == <<"A", "B", "C", "OPENAI_API_KEY", "ACME_API_KEY", "MY_APP_PORT">>

RECURSIVE KeysFrom(_, _)
KeysFrom(obj, i) ==
    IF i > Len(KeyOrder) THEN << >>
    ELSE (IF KeyOrder[i] \in DOMAIN obj THEN <<KeyOrder[i]>> ELSE << >>) \o KeysFrom(obj, i + 1)

ObjectKeys(obj) == KeysFrom(obj, 1)

\* a count that takes a secret as missing whenever it lists the key-not-found
\* issue, whatever its status
Count_MissingByIssue(secrets, status) ==
    Cardinality({ i \in 1..Len(secrets) :
                    \/ secrets[i].status = status
                    \/ /\ status = "missing"
                       /\ \E j \in 1..Len(secrets[i].issues) : secrets[i].issues[j] = IssueMissing })

\* secrets.count((s) => s.status === status)
Count(secrets, status) == Cardinality({i \in 1..Len(secrets) : secrets[i].status = status})

\* the aggregate without missing_metadata among the degrading statuses
HealthStatusOf_NoMetadata(expired, missing, expiring_soon, stale, missing_metadata) ==
    IF expired > 0 \/ missing > 0 THEN "critical"
    ELSE IF expiring_soon > 0 \/ stale > 0 THEN "degraded"
    ELSE "healthy"

\* Cond.of().when(..).elseWhen(..).else(..) of computeAudit
HealthStatusOf(expired, missing, expiring_soon, stale, missing_metadata) ==
    IF expired > 0 \/ missing > 0 THEN "critical"
    ELSE IF expiring_soon > 0 \/ stale > 0 \/ missing_metadata > 0 THEN "degraded"
    ELSE "healthy"

\* the count taken the other way round: known keys that the config lacks
orphanedOf_KnownNotTracked(metaKeys, keys) ==
    IF Cardinality(keys) > 0 THEN Cardinality({k \in keys : k \notin metaKeys}) ELSE 0

\* [...metaKeys].filter((k) => !keys.has(k)).length, when keys is not empty
orphanedOf(metaKeys, keys) ==
    IF Cardinality(keys) > 0 THEN Cardinality({k \in metaKeys : k \notin keys}) ELSE 0

\* the audit date always read from the wall clock
nowOf_WallClock(today, wallClock) == wallClock

\* today ?? new Date(): wallClock is what new Date() returns at the call
nowOf(today, wallClock) == OrElse(today, wallClock)

computeAudit(cfg, fnox, today, wallClock) ==
    LET now == nowOf(today, wallClock)
        lifecycle == OrElse(Field(cfg, "lifecycle"), << >>)
        staleWarningDays == OrElse(Field(lifecycle, "stale_warning_days"), DefaultStaleWarningDays)
        requireExpiration == OrElse(Field(lifecycle, "require_expiration"), FALSE)
        requireService == OrElse(Field(lifecycle, "require_service"), FALSE)
        keys == OrElse(fnox, {})
        metaKeys == DOMAIN cfg.meta
        order == ObjectKeys(cfg.meta)
        secrets == [i \in 1..Len(order) |->
                      classifySecret(order[i], cfg.meta[order[i]], keys, staleWarningDays,
                                     requireExpiration, requireService, now)]
        expired == Count(secrets, "expired")
        missing == Count(secrets, "missing")
        missing_metadata == Count(secrets, "missing_metadata")
        expiring_soon == Count(secrets, "expiring_soon")
        stale == Count(secrets, "stale")
        healthy == Count(secrets, "healthy")
    IN  [ status           |-> HealthStatusOf(expired, missing, expiring_soon, stale, missing_metadata),
          secrets          |-> secrets,
          total            |-> Len(secrets),
          healthy          |-> healthy,
          expiring_soon    |-> expiring_soon,
          expired          |-> expired,
          stale            |-> stale,
          missing          |-> missing,
          missing_metadata |-> missing_metadata,
          orphaned         |-> orphanedOf(metaKeys, keys),
          agent            |-> Field(cfg, "agent") ]

-----------------------------------------------------------------------------
(* Inputs of the audit                                                     *)

AuditDay == [y |-> 2025, m |-> 6, d |-> 15]
ClockStart == DateUTC(AuditDay)

CreatedStrs == { [y |-> 2024, m |-> 12, d |-> 1] }
ExpiresStrs == { [y |-> 2025, m |-> 6, d |-> 15],      \* the audit day
                 [y |-> 2025, m |-> 7, d |-> 15],      \* 30 days later
                 [y |-> 2025, m |-> 7, d |-> 16],      \* 31 days later
                 [y |-> 2025, m |-> 13, d |-> 1] }     \* not a date

AuditFieldVals == [created |-> CreatedStrs, expires |-> ExpiresStrs, service |-> {"svc"}]

\* every object with some of the fields of vals, each field f holding one of vals[f]
RECURSIVE ObjectsOver(_, _)
ObjectsOver(fields, vals) ==
    IF fields = {} THEN { << >> }
    ELSE LET f == CHOOSE x \in fields : TRUE
             rest == ObjectsOver(fields \ {f}, vals)
         IN  rest \cup { [g \in DOMAIN o \cup {f} |-> IF g = f THEN v ELSE o[g]] : o \in rest, v \in vals[f] }

Objects(vals) == ObjectsOver(DOMAIN vals, vals)

SecretMetas == Objects(AuditFieldVals)

MetaKeys == {"A", "B"}
KnownKeys == {"A", "B", "C"}

MetaMaps == UNION { [D -> SecretMetas] : D \in SUBSET MetaKeys }

LifecycleVals == [stale_warning_days |-> {365}, require_expiration |-> {TRUE}, require_service |-> {TRUE}]

Lifecycles == Objects(LifecycleVals)

AuditConfigs == { [version |-> 1, meta |-> m, lifecycle |-> l] : m \in MetaMaps, l \in Lifecycles }

FnoxKeySets == { None } \cup { Some(S) : S \in SUBSET KnownKeys }

Todays == { None } \cup { Some(ClockStart + i) : i \in 0..MaxTicks }

-----------------------------------------------------------------------------
(* Catalog resolver                                                        *)

Left(e) == [either |-> "Left", error |-> e]
Right(v) == [either |-> "Right", value |-> v]
isLeft(r) == r.either = "Left"
isRight(r) == r.either = "Right"

\* What the file system holds at a path.  A stored file is abstracted by the
\* outcome of reading, parsing and validating it.
FileAbsent == [file |-> "absent"]
FileUnreadable == [file |-> "unreadable"]
FileBadToml == [file |-> "bad-toml"]
FileBadSchema == [file |-> "bad-schema"]
FileConfig(cfg) == [file |-> "config", config |-> cfg]

\* readConfigFile(path).flatMap(parseToml).flatMap(validateConfig)
loadConfig(path, file) ==
    IF file.file = "absent" THEN Left([_tag |-> "FileNotFound", path |-> path])
    ELSE IF file.file = "unreadable" THEN Left([_tag |-> "ReadError"])
    ELSE IF file.file = "bad-toml" THEN Left([_tag |-> "ParseError"])
    ELSE IF file.file = "bad-schema" THEN Left([_tag |-> "ValidationError"])
    ELSE Right(file.config)

loadCatalog(catalogPath, file) ==
    LET r == loadConfig(catalogPath, file)
    IN  IF isLeft(r)
        THEN IF r.error._tag = "FileNotFound"
             THEN Left([_tag |-> "CatalogNotFound", path |-> r.error.path])
             ELSE Left([_tag |-> "CatalogLoadError", cause |-> r.error._tag])
        ELSE r

\* a merge that appends to list-valued fields instead of replacing them
Spread_DeepMerge(catalogEntry, agentOverride) ==
    [f \in DOMAIN catalogEntry \cup DOMAIN agentOverride |->
        IF f \in DOMAIN agentOverride
        THEN IF f = "capabilities" /\ f \in DOMAIN catalogEntry
             THEN catalogEntry[f] \o agentOverride[f]
             ELSE agentOverride[f]
        ELSE catalogEntry[f]]

\* { ...catalogEntry, ...agentOverride }
Spread(catalogEntry, agentOverride) ==
    [f \in DOMAIN catalogEntry \cup DOMAIN agentOverride |->
        IF f \in DOMAIN agentOverride THEN agentOverride[f] ELSE catalogEntry[f]]

\* obj[key] = value
Put(obj, key, value) == [k \in DOMAIN obj \cup {key} |-> IF k = key THEN value ELSE obj[k]]

\* the body of the loop of resolveSecrets for the keys agentSecrets[i..]
RECURSIVE resolveFrom(_, _, _, _, _, _)
resolveFrom(agentMeta, catalogMeta, agentSecrets, catalogPath, i, acc) ==
    IF i > Len(agentSecrets) THEN Right(acc)
    ELSE LET key == agentSecrets[i]
         IN  IF key \notin DOMAIN catalogMeta
             THEN Left([_tag |-> "SecretNotInCatalog", key |-> key, catalogPath |-> catalogPath])
             ELSE resolveFrom(agentMeta, catalogMeta, agentSecrets, catalogPath, i + 1,
                              Put(acc, key,
                                  IF key \in DOMAIN agentMeta
                                  THEN Spread(catalogMeta[key], agentMeta[key])
                                  ELSE catalogMeta[key]))

\* a loop that skips a key the catalog lacks instead of failing
RECURSIVE resolveFrom_SkipMissing(_, _, _, _, _, _)
resolveFrom_SkipMissing(agentMeta, catalogMeta, agentSecrets, catalogPath, i, acc) ==
    IF i > Len(agentSecrets) THEN Right(acc)
    ELSE LET key == agentSecrets[i]
         IN  IF key \notin DOMAIN catalogMeta
             THEN resolveFrom_SkipMissing(agentMeta, catalogMeta, agentSecrets, catalogPath, i + 1, acc)
             ELSE resolveFrom_SkipMissing(agentMeta, catalogMeta, agentSecrets, catalogPath, i + 1,
                              Put(acc, key,
                                  IF key \in DOMAIN agentMeta
                                  THEN Spread(catalogMeta[key], agentMeta[key])
                                  ELSE catalogMeta[key]))

resolveSecrets_SkipMissing(agentMeta, catalogMeta, agentSecrets, catalogPath) ==
    resolveFrom_SkipMissing(agentMeta, catalogMeta, agentSecrets, catalogPath, 1, << >>)

\* resolveSecrets starting from the agent's own meta instead of an empty object
resolveSecrets_OntoAgentMeta(agentMeta, catalogMeta, agentSecrets, catalogPath) ==
    resolveFrom(agentMeta, catalogMeta, agentSecrets, catalogPath, 1, agentMeta)

resolveSecrets(agentMeta, catalogMeta, agentSecrets, catalogPath) ==
    resolveFrom(agentMeta, catalogMeta, agentSecrets, catalogPath, 1, << >>)

\* path.resolve(dir, rel)
resolvePath(dir, rel) == <<dir, rel>>

\* the rest of obj with f left in it
Without_Keep(obj, f) == obj

\* obj without the field f: const { f: _, ...rest } = obj
Without(obj, f) == [g \in DOMAIN obj \ {f} |-> obj[g]]

\* !agentConfig.catalog: the field is absent or the empty string
hasCatalog(cfg) == "catalog" \in DOMAIN cfg /\ cfg.catalog # ""

\* the secrets test without the check for an empty list
lacksSecretsList_NoEmptyCheck(cfg) ==
    \/ "agent" \notin DOMAIN cfg
    \/ "secrets" \notin DOMAIN cfg.agent

\* !agentConfig.agent?.secrets || agentConfig.agent.secrets.length === 0
lacksSecretsList(cfg) ==
    \/ "agent" \notin DOMAIN cfg
    \/ "secrets" \notin DOMAIN cfg.agent
    \/ Len(cfg.agent.secrets) = 0

\* every merged key recorded as overridden
overriddenFrom_Unconditional(agentSecrets, agentMeta, i) ==
    IF i > Len(agentSecrets) THEN << >> ELSE SubSeq(agentSecrets, i, Len(agentSecrets))

\* SelectSeq(agentSecrets, key in agentConfig.meta)
RECURSIVE overriddenFrom(_, _, _)
overriddenFrom(agentSecrets, agentMeta, i) ==
    IF i > Len(agentSecrets) THEN << >>
    ELSE (IF agentSecrets[i] \in DOMAIN agentMeta THEN <<agentSecrets[i]>> ELSE << >>)
         \o overriddenFrom(agentSecrets, agentMeta, i + 1)

\* resolveConfig with the agent section of a pass-through config normalised too
resolveConfig_Normalise(cfg, agentConfigDir, file) ==
    IF ~hasCatalog(cfg)
    THEN [ result |-> Right([ config     |-> IF "agent" \in DOMAIN cfg
                                             THEN [cfg EXCEPT !.agent = Without(cfg.agent, "secrets")]
                                             ELSE cfg,
                              merged     |-> << >>,
                              overridden |-> << >>,
                              warnings   |-> << >> ]),
           loads  |-> 0 ]
    ELSE IF lacksSecretsList(cfg)
    THEN [ result |-> Left([_tag |-> "MissingSecretsList"]), loads |-> 0 ]
    ELSE LET catalogPath == resolvePath(agentConfigDir, cfg.catalog)
             agentSecrets == cfg.agent.secrets
             loaded == loadCatalog(catalogPath, file)
             secrets == resolveSecrets(cfg.meta, loaded.value.meta, agentSecrets, catalogPath)
             agentIdentity == Without(cfg.agent, "secrets")
             resolvedConfig ==
                 [f \in (DOMAIN cfg \ {"catalog"}) \cup {"agent", "meta"} |->
                     IF f = "agent" THEN agentIdentity
                     ELSE IF f = "meta" THEN secrets.value
                     ELSE cfg[f]]
         IN  [ result |->
                 IF isLeft(loaded) THEN loaded
                 ELSE IF isLeft(secrets) THEN secrets
                 ELSE Right([ config      |-> resolvedConfig,
                              catalogPath |-> catalogPath,
                              merged      |-> agentSecrets,
                              overridden  |-> overriddenFrom(agentSecrets, cfg.meta, 1),
                              warnings    |-> << >> ]),
               loads |-> 1 ]

\* The result of resolveConfig and the number of loadConfig calls it made.
resolveConfig(cfg, agentConfigDir, file) ==
    IF ~hasCatalog(cfg)
    THEN [ result |-> Right([config |-> cfg, merged |-> << >>, overridden |-> << >>, warnings |-> << >>]),
           loads  |-> 0 ]
    ELSE IF lacksSecretsList(cfg)
    THEN [ result |-> Left([_tag |-> "MissingSecretsList"]), loads |-> 0 ]
    ELSE LET catalogPath == resolvePath(agentConfigDir, cfg.catalog)
             agentSecrets == cfg.agent.secrets
             loaded == loadCatalog(catalogPath, file)
             secrets == resolveSecrets(cfg.meta, loaded.value.meta, agentSecrets, catalogPath)
             agentIdentity == Without(cfg.agent, "secrets")
             resolvedConfig ==
                 [f \in (DOMAIN cfg \ {"catalog"}) \cup {"agent", "meta"} |->
                     IF f = "agent" THEN agentIdentity
                     ELSE IF f = "meta" THEN secrets.value
                     ELSE cfg[f]]
         IN  [ result |->
                 IF isLeft(loaded) THEN loaded
                 ELSE IF isLeft(secrets) THEN secrets
                 ELSE Right([ config      |-> resolvedConfig,
                              catalogPath |-> catalogPath,
                              merged      |-> agentSecrets,
                              overridden  |-> overriddenFrom(agentSecrets, cfg.meta, 1),
                              warnings    |-> << >> ]),
               loads |-> 1 ]

-----------------------------------------------------------------------------
(* Inputs of the resolver                                                  *)

AgentDir == "/agents/pipeline"
CatalogRef == "../../catalog.toml"

CatalogEntryVals ==
    [ service      |-> {"postgres"},
      capabilities |-> {<<"SELECT", "INSERT">>},
      tags         |-> {[env |-> "prod", team |-> "data"]} ]

OverrideVals ==
    [ service      |-> {"replica"},
      capabilities |-> {<<"SELECT">>},
      tags         |-> {[env |-> "dev"]} ]

CatalogEntries == { e \in Objects(CatalogEntryVals) : "service" \in DOMAIN e }
Overrides == Objects(OverrideVals)

CatalogKeys == {"A", "B"}

SecretsLists == { << >>, <<"A">>, <<"B">>, <<"A", "B">>, <<"B", "A">> }

AgentSections ==
    { [name |-> "pipeline"] } \cup { [name |-> "pipeline", secrets |-> s] : s \in SecretsLists }

AgentLifecycle == [stale_warning_days |-> 365]
CatalogLifecycle == [stale_warning_days |-> 30, require_service |-> TRUE]

AgentConfigVals ==
    [ catalog   |-> {"", CatalogRef},
      agent     |-> AgentSections,
      lifecycle |-> {AgentLifecycle} ]

\* the callbacks and tools sections of an agent config, both or neither
AgentCallbacks == [on_expired |-> "https://hooks.example.com/expired"]
AgentTools == [fnox |-> TRUE]
AgentHooks == { << >>, [callbacks |-> AgentCallbacks, tools |-> AgentTools] }

AgentConfigs ==
    { [f \in DOMAIN o \cup DOMAIN h \cup {"version", "meta"} |->
          IF f = "version" THEN 1
          ELSE IF f = "meta" THEN m
          ELSE IF f \in DOMAIN h THEN h[f]
          ELSE o[f]] :
      o \in Objects(AgentConfigVals),
      h \in AgentHooks,
      m \in UNION { [D -> Overrides] : D \in SUBSET CatalogKeys } }

\* the sections of a catalog file besides its meta
CatalogCallbacks == [on_expired |-> "https://hooks.example.com/catalog"]
CatalogTools == [fnox |-> FALSE]
CatalogAgent == [name |-> "catalog-owner", consumer |-> "service"]

CatalogConfigs ==
    { [ version   |-> 1,
        meta      |-> m,
        lifecycle |-> CatalogLifecycle,
        callbacks |-> CatalogCallbacks,
        tools     |-> CatalogTools,
        agent     |-> CatalogAgent ] :
      m \in UNION { [D -> CatalogEntries] : D \in SUBSET CatalogKeys } }

Files == { FileAbsent, FileUnreadable, FileBadToml, FileBadSchema }
         \cup { FileConfig(c) : c \in CatalogConfigs }

IdleAgentConfig == [version |-> 1, meta |-> << >>]

-----------------------------------------------------------------------------
(* Pattern registry (src/core/patterns.ts)                                 *)
(* A JavaScript string is a TLA+ string; Len, SubSeq and \o act on it.    *)

\* s.startsWith(prefix)
startsWith(s, prefix) == Len(s) >= Len(prefix) /\ SubSeq(s, 1, Len(prefix)) = prefix

\* s.endsWith(suffix)
endsWith(s, suffix) ==
    Len(s) >= Len(suffix) /\ SubSeq(s, Len(s) - Len(suffix) + 1, Len(s)) = suffix

charAt(s, i) == SubSeq(s, i, i)

UpperCase == "ABCDEFGHIJKLMNOPQRSTUVWXYZ"
LowerCase == "abcdefghijklmnopqrstuvwxyz"

\* the place of the one-character string c in the string alphabet, 0 if none
indexIn(alphabet, c) ==
    IF \E i \in 1..Len(alphabet) : charAt(alphabet, i) = c
    THEN CHOOSE i \in 1..Len(alphabet) : charAt(alphabet, i) = c
    ELSE 0

lowerChar(c) == IF indexIn(UpperCase, c) > 0 THEN charAt(LowerCase, indexIn(UpperCase, c)) ELSE c

\* s.toLowerCase(), from the i-th character on
RECURSIVE toLowerCaseFrom(_, _)
toLowerCaseFrom(s, i) ==
    IF i > Len(s) THEN "" ELSE lowerChar(charAt(s, i)) \o toLowerCaseFrom(s, i + 1)

toLowerCase(s) == toLowerCaseFrom(s, 1)

\* s.replace(/_/g, "-"), from the i-th character on
RECURSIVE hyphenateFrom(_, _)
hyphenateFrom(s, i) ==
    IF i > Len(s) THEN ""
    ELSE (IF charAt(s, i) = "_" THEN "-" ELSE charAt(s, i)) \o hyphenateFrom(s, i + 1)

hyphenate(s) == hyphenateFrom(s, 1)

\* the least index of a non-empty set of indices: where a scan that returns
\* at its first hit stops
firstOf(hits) == CHOOSE i \in hits : \A j \in hits : i <= j

EXCLUDED_VARS ==
    { "PATH", "HOME", "USER", "SHELL", "TERM", "LANG", "LC_ALL", "LC_CTYPE",
      "DISPLAY", "EDITOR", "VISUAL", "PAGER", "HOSTNAME", "LOGNAME", "MAIL",
      "OLDPWD", "PWD", "SHLVL", "TMPDIR", "TZ", "XDG_CACHE_HOME",
      "XDG_CONFIG_HOME", "XDG_DATA_HOME", "XDG_RUNTIME_DIR",
      "XDG_SESSION_TYPE", "NODE_ENV", "NODE_PATH", "NODE_OPTIONS", "NVM_DIR",
      "NVM_BIN", "NVM_INC", "NVM_CD_FLAGS", "NPM_CONFIG_PREFIX", "GOPATH",
      "GOROOT", "CARGO_HOME", "RUSTUP_HOME", "JAVA_HOME", "ANDROID_HOME",
      "PYENV_ROOT", "VIRTUAL_ENV", "CONDA_PREFIX", "CONDA_DEFAULT_ENV",
      "MANPATH", "INFOPATH", "LESS", "LSCOLORS", "LS_COLORS", "COLORTERM",
      "TERM_PROGRAM", "TERM_PROGRAM_VERSION", "TERM_SESSION_ID",
      "ITERM_SESSION_ID", "ITERM_PROFILE", "SSH_AUTH_SOCK", "SSH_AGENT_PID",
      "GPG_TTY", "GNUPGHOME", "DBUS_SESSION_BUS_ADDRESS", "WAYLAND_DISPLAY",
      "ZDOTDIR", "ZSH", "HISTFILE", "HISTSIZE", "SAVEHIST", "_",
      "__CF_USER_TEXT_ENCODING", "Apple_PubSub_Socket_Render",
      "COMMAND_MODE", "SECURITYSESSIONID", "LaunchInstanceID", "PNPM_HOME",
      "BUN_INSTALL", "FNM_DIR", "FNM_MULTISHELL_PATH",
      "FNM_VERSION_FILE_STRATEGY", "FNM_LOGLEVEL", "FNM_NODE_DIST_MIRROR",
      "FNM_ARCH", "VOLTA_HOME" }

EXACT_NAME_PATTERNS ==
    << [kind |-> "name", pattern |-> "OPENAI_API_KEY", service |-> "openai", confidence |-> "high"],
       [kind |-> "name", pattern |-> "OPENAI_ORG_ID", service |-> "openai", confidence |-> "high"],
       [kind |-> "name", pattern |-> "ANTHROPIC_API_KEY", service |-> "anthropic", confidence |-> "high"],
       [kind |-> "name", pattern |-> "AWS_ACCESS_KEY_ID", service |-> "aws", confidence |-> "high"],
       [kind |-> "name", pattern |-> "AWS_SECRET_ACCESS_KEY", service |-> "aws", confidence |-> "high"],
       [kind |-> "name", pattern |-> "AWS_SESSION_TOKEN", service |-> "aws", confidence |-> "high"],
       [kind |-> "name", pattern |-> "GOOGLE_APPLICATION_CREDENTIALS", service |-> "gcp", confidence |-> "high"],
       [kind |-> "name", pattern |-> "GOOGLE_API_KEY", service |-> "google", confidence |-> "high"],
       [kind |-> "name", pattern |-> "GCP_PROJECT_ID", service |-> "gcp", confidence |-> "medium"],
       [kind |-> "name", pattern |-> "AZURE_CLIENT_ID", service |-> "azure", confidence |-> "high"],
       [kind |-> "name", pattern |-> "AZURE_CLIENT_SECRET", service |-> "azure", confidence |-> "high"],
       [kind |-> "name", pattern |-> "AZURE_TENANT_ID", service |-> "azure", confidence |-> "high"],
       [kind |-> "name", pattern |-> "STRIPE_SECRET_KEY", service |-> "stripe", confidence |-> "high"],
       [kind |-> "name", pattern |-> "STRIPE_PUBLISHABLE_KEY", service |-> "stripe", confidence |-> "high"],
       [kind |-> "name", pattern |-> "STRIPE_WEBHOOK_SECRET", service |-> "stripe", confidence |-> "high"],
       [kind |-> "name", pattern |-> "GITHUB_TOKEN", service |-> "github", confidence |-> "high"],
       [kind |-> "name", pattern |-> "GH_TOKEN", service |-> "github", confidence |-> "high"],
       [kind |-> "name", pattern |-> "SLACK_BOT_TOKEN", service |-> "slack", confidence |-> "high"],
       [kind |-> "name", pattern |-> "SLACK_SIGNING_SECRET", service |-> "slack", confidence |-> "high"],
       [kind |-> "name", pattern |-> "SLACK_WEBHOOK_URL", service |-> "slack", confidence |-> "high"],
       [kind |-> "name", pattern |-> "TWILIO_ACCOUNT_SID", service |-> "twilio", confidence |-> "high"],
       [kind |-> "name", pattern |-> "TWILIO_AUTH_TOKEN", service |-> "twilio", confidence |-> "high"],
       [kind |-> "name", pattern |-> "SENDGRID_API_KEY", service |-> "sendgrid", confidence |-> "high"],
       [kind |-> "name", pattern |-> "SUPABASE_URL", service |-> "supabase", confidence |-> "high"],
       [kind |-> "name", pattern |-> "SUPABASE_ANON_KEY", service |-> "supabase", confidence |-> "high"],
       [kind |-> "name", pattern |-> "SUPABASE_SERVICE_ROLE_KEY", service |-> "supabase", confidence |-> "high"],
       [kind |-> "name", pattern |-> "DATABASE_URL", service |-> "database", confidence |-> "high"],
       [kind |-> "name", pattern |-> "DATABASE_PASSWORD", service |-> "database", confidence |-> "high"],
       [kind |-> "name", pattern |-> "REDIS_URL", service |-> "redis", confidence |-> "high"],
       [kind |-> "name", pattern |-> "MONGODB_URI", service |-> "mongodb", confidence |-> "high"],
       [kind |-> "name", pattern |-> "DD_API_KEY", service |-> "datadog", confidence |-> "high"],
       [kind |-> "name", pattern |-> "DD_APP_KEY", service |-> "datadog", confidence |-> "high"],
       [kind |-> "name", pattern |-> "SENTRY_DSN", service |-> "sentry", confidence |-> "high"],
       [kind |-> "name", pattern |-> "SENTRY_AUTH_TOKEN", service |-> "sentry", confidence |-> "high"],
       [kind |-> "name", pattern |-> "VERCEL_TOKEN", service |-> "vercel", confidence |-> "high"],
       [kind |-> "name", pattern |-> "NETLIFY_AUTH_TOKEN", service |-> "netlify", confidence |-> "high"],
       [kind |-> "name", pattern |-> "CLOUDFLARE_API_TOKEN", service |-> "cloudflare", confidence |-> "high"],
       [kind |-> "name", pattern |-> "CF_API_TOKEN", service |-> "cloudflare", confidence |-> "high"],
       [kind |-> "name", pattern |-> "DOCKER_PASSWORD", service |-> "docker", confidence |-> "high"],
       [kind |-> "name", pattern |-> "DOCKER_TOKEN", service |-> "docker", confidence |-> "high"],
       [kind |-> "name", pattern |-> "NPM_TOKEN", service |-> "npm", confidence |-> "high"],
       [kind |-> "name", pattern |-> "HF_TOKEN", service |-> "huggingface", confidence |-> "high"],
       [kind |-> "name", pattern |-> "HUGGING_FACE_HUB_TOKEN", service |-> "huggingface", confidence |-> "high"],
       [kind |-> "name", pattern |-> "COHERE_API_KEY", service |-> "cohere", confidence |-> "high"],
       [kind |-> "name", pattern |-> "REPLICATE_API_TOKEN", service |-> "replicate", confidence |-> "high"],
       [kind |-> "name", pattern |-> "PINECONE_API_KEY", service |-> "pinecone", confidence |-> "high"],
       [kind |-> "name", pattern |-> "LINEAR_API_KEY", service |-> "linear", confidence |-> "high"] >>

SUFFIX_PATTERNS ==
    << [suffix |-> "_API_KEY", description |-> "API key"],
       [suffix |-> "_SECRET_KEY", description |-> "Secret key"],
       [suffix |-> "_SECRET", description |-> "Secret"],
       [suffix |-> "_TOKEN", description |-> "Token"],
       [suffix |-> "_PASSWORD", description |-> "Password"],
       [suffix |-> "_PASS", description |-> "Password"],
       [suffix |-> "_AUTH_TOKEN", description |-> "Auth token"],
       [suffix |-> "_ACCESS_TOKEN", description |-> "Access token"],
       [suffix |-> "_PRIVATE_KEY", description |-> "Private key"],
       [suffix |-> "_SIGNING_KEY", description |-> "Signing key"],
       [suffix |-> "_WEBHOOK_SECRET", description |-> "Webhook secret"],
       [suffix |-> "_DSN", description |-> "DSN"],
       [suffix |-> "_CONNECTION_STRING", description |-> "Connection string"] >>

VALUE_SHAPE_PATTERNS ==
    << [prefix |-> "sk-ant-", service |-> "anthropic", description |-> "Anthropic API key"],
       [prefix |-> "sk-", service |-> "openai", description |-> "OpenAI API key"],
       [prefix |-> "sk_live_", service |-> "stripe", description |-> "Stripe live secret key"],
       [prefix |-> "sk_test_", service |-> "stripe", description |-> "Stripe test secret key"],
       [prefix |-> "pk_live_", service |-> "stripe", description |-> "Stripe live publishable key"],
       [prefix |-> "pk_test_", service |-> "stripe", description |-> "Stripe test publishable key"],
       [prefix |-> "whsec_", service |-> "stripe", description |-> "Stripe webhook secret"],
       [prefix |-> "AKIA", service |-> "aws", description |-> "AWS access key ID"],
       [prefix |-> "ghp_", service |-> "github", description |-> "GitHub personal access token"],
       [prefix |-> "gho_", service |-> "github", description |-> "GitHub OAuth token"],
       [prefix |-> "ghs_", service |-> "github", description |-> "GitHub server-to-server token"],
       [prefix |-> "ghu_", service |-> "github", description |-> "GitHub user-to-server token"],
       [prefix |-> "github_pat_", service |-> "github", description |-> "GitHub fine-grained PAT"],
       [prefix |-> "xoxb-", service |-> "slack", description |-> "Slack bot token"],
       [prefix |-> "xoxp-", service |-> "slack", description |-> "Slack user token"],
       [prefix |-> "xoxa-", service |-> "slack", description |-> "Slack app token"],
       [prefix |-> "xoxs-", service |-> "slack", description |-> "Slack legacy token"],
       [prefix |-> "SG.", service |-> "sendgrid", description |-> "SendGrid API key"],
       [prefix |-> "hf_", service |-> "huggingface", description |-> "Hugging Face token"],
       [prefix |-> "r8_", service |-> "replicate", description |-> "Replicate API token"],
       [prefix |-> "eyJ", service |-> "jwt", description |-> "JWT token"],
       [prefix |-> "postgres://", service |-> "postgresql", description |-> "PostgreSQL connection string"],
       [prefix |-> "postgresql://", service |-> "postgresql", description |-> "PostgreSQL connection string"],
       [prefix |-> "mysql://", service |-> "mysql", description |-> "MySQL connection string"],
       [prefix |-> "mongodb://", service |-> "mongodb", description |-> "MongoDB connection string"],
       [prefix |-> "mongodb+srv://", service |-> "mongodb", description |-> "MongoDB SRV connection string"],
       [prefix |-> "redis://", service |-> "redis", description |-> "Redis connection string"],
       [prefix |-> "rediss://", service |-> "redis", description |-> "Redis TLS connection string"],
       [prefix |-> "amqp://", service |-> "rabbitmq", description |-> "RabbitMQ connection string"],
       [prefix |-> "amqps://", service |-> "rabbitmq", description |-> "RabbitMQ TLS connection string"] >>

\* matchValueShape with the last rule that fits the value instead of the first
matchValueShape_LastMatch(value) ==
    LET hits == { i \in 1..Len(VALUE_SHAPE_PATTERNS) :
                    startsWith(value, VALUE_SHAPE_PATTERNS[i].prefix) }
    IN  IF hits = {} THEN None
        ELSE LET vp == VALUE_SHAPE_PATTERNS[CHOOSE i \in hits : \A j \in hits : i >= j]
             IN  Some([service |-> vp.service, description |-> vp.description])

matchValueShape(value) ==
    LET hits == { i \in 1..Len(VALUE_SHAPE_PATTERNS) :
                    startsWith(value, VALUE_SHAPE_PATTERNS[i].prefix) }
    IN  IF hits = {} THEN None
        ELSE LET vp == VALUE_SHAPE_PATTERNS[firstOf(hits)]
             IN  Some([service |-> vp.service, description |-> vp.description])

\* the suffix list of deriveServiceFromName taken from SUFFIX_PATTERNS
suffixes_OfSuffixPatterns == [i \in 1..Len(SUFFIX_PATTERNS) |-> SUFFIX_PATTERNS[i].suffix]

\* the suffixes deriveServiceFromName strips, in the order it tries them
suffixes ==
    << "_API_KEY", "_SECRET_KEY", "_ACCESS_KEY", "_PRIVATE_KEY",
       "_SIGNING_KEY", "_AUTH_TOKEN", "_ACCESS_TOKEN",
       "_WEBHOOK_SECRET", "_CONNECTION_STRING", "_SECRET", "_TOKEN",
       "_PASSWORD", "_PASS", "_KEY", "_DSN", "_URL", "_URI" >>

deriveServiceFromName(name) ==
    LET hits == { i \in 1..Len(suffixes) : endsWith(name, suffixes[i]) }
        stripped == IF hits = {} THEN name
                    ELSE SubSeq(name, 1, Len(name) - Len(suffixes[firstOf(hits)]))
    IN  hyphenate(toLowerCase(stripped))

\* layer 1 with the confidence of the layer, not of the entry
exactNameMatch_LayerConfidence(name, value) ==
    LET hits == { i \in 1..Len(EXACT_NAME_PATTERNS) : name = EXACT_NAME_PATTERNS[i].pattern }
    IN  IF hits = {} THEN None
        ELSE LET p == EXACT_NAME_PATTERNS[firstOf(hits)]
             IN  Some([ envVar     |-> name,
                        value      |-> value,
                        service    |-> Some(p.service),
                        confidence |-> "high",
                        matchedBy  |-> "exact:" \o p.pattern ])

\* layer 1 of matchEnvVar: the first entry of EXACT_NAME_PATTERNS the name equals
exactNameMatch(name, value) ==
    LET hits == { i \in 1..Len(EXACT_NAME_PATTERNS) : name = EXACT_NAME_PATTERNS[i].pattern }
    IN  IF hits = {} THEN None
        ELSE LET p == EXACT_NAME_PATTERNS[firstOf(hits)]
             IN  Some([ envVar     |-> name,
                        value      |-> value,
                        service    |-> Some(p.service),
                        confidence |-> p.confidence,
                        matchedBy  |-> "exact:" \o p.pattern ])

\* layer 2 of matchEnvVar: the result built from a value-shape rule
valueShapeMatch(name, value, vm) ==
    Some([ envVar     |-> name,
           value      |-> value,
           service    |-> Some(vm.service),
           confidence |-> "high",
           matchedBy  |-> "value:" \o vm.description ])

\* layer 3 of matchEnvVar: the first entry of SUFFIX_PATTERNS the name ends with
suffixMatch(name, value) ==
    LET hits == { i \in 1..Len(SUFFIX_PATTERNS) : endsWith(name, SUFFIX_PATTERNS[i].suffix) }
    IN  IF hits = {} THEN None
        ELSE Some([ envVar     |-> name,
                    value      |-> value,
                    service    |-> Some(deriveServiceFromName(name)),
                    confidence |-> "medium",
                    matchedBy  |-> "suffix:" \o SUFFIX_PATTERNS[firstOf(hits)].suffix ])

\* matchEnvVar with the value shape tried before the exact names
matchEnvVar_ValueFirst(name, value) ==
    IF name \in EXCLUDED_VARS THEN None
    ELSE IF isSome(matchValueShape(value)) THEN valueShapeMatch(name, value, get(matchValueShape(value)))
    ELSE IF isSome(exactNameMatch(name, value)) THEN exactNameMatch(name, value)
    ELSE suffixMatch(name, value)

matchEnvVar(name, value) ==
    IF name \in EXCLUDED_VARS THEN None
    ELSE IF isSome(exactNameMatch(name, value)) THEN exactNameMatch(name, value)
    ELSE IF isSome(matchValueShape(value)) THEN valueShapeMatch(name, value, get(matchValueShape(value)))
    ELSE suffixMatch(name, value)

\* the skip test of scanEnv for undefined values alone
isUnset_UndefinedOnly(value) == isNone(value)

\* value === undefined || value === ""
isUnset(value) == isNone(value) \/ get(value) = ""

confidenceOrder == [high |-> 0, medium |-> 1, low |-> 2]

\* String.prototype.localeCompare on names of letters, digits and
\* underscores, as the root collation orders them: the underscore before the
\* digits before the letters, with case deciding only between names that are
\* otherwise equal, lower case first.
CollationAlphabet == "_0123456789abcdefghijklmnopqrstuvwxyz"

\* the weight that decides first: the place of the character, whatever its case
primaryWeight(c) == indexIn(CollationAlphabet, lowerChar(c))

RECURSIVE comparePrimary(_, _, _)
comparePrimary(a, b, i) ==
    IF i > Len(a) /\ i > Len(b) THEN 0
    ELSE IF i > Len(a) THEN -1
    ELSE IF i > Len(b) THEN 1
    ELSE IF primaryWeight(charAt(a, i)) < primaryWeight(charAt(b, i)) THEN -1
    ELSE IF primaryWeight(charAt(a, i)) > primaryWeight(charAt(b, i)) THEN 1
    ELSE comparePrimary(a, b, i + 1)

RECURSIVE compareCase(_, _, _)
compareCase(a, b, i) ==
    IF i > Len(a) THEN 0
    ELSE IF charAt(a, i) = charAt(b, i) THEN compareCase(a, b, i + 1)
    ELSE IF charAt(a, i) = lowerChar(charAt(a, i)) THEN -1
    ELSE 1

localeCompare(a, b) ==
    IF comparePrimary(a, b, 1) # 0 THEN comparePrimary(a, b, 1) ELSE compareCase(a, b, 1)

\* the comparator of scanEnv without the confidence tiers
compareResults_NameOnly(a, b) == localeCompare(a.envVar, b.envVar)

\* the comparator scanEnv sorts with
compareResults(a, b) ==
    LET conf == confidenceOrder[a.confidence] - confidenceOrder[b.confidence]
    IN  IF conf # 0 THEN conf ELSE localeCompare(a.envVar, b.envVar)

\* Array.prototype.sort, which is stable: x goes behind the elements of the
\* sorted list that do not compare above it
insertSorted(sorted, x) ==
    LET k == Cardinality({ i \in 1..Len(sorted) : compareResults(sorted[i], x) <= 0 })
    IN  SubSeq(sorted, 1, k) \o <<x>> \o SubSeq(sorted, k + 1, Len(sorted))

RECURSIVE sortResults(_, _)
sortResults(results, n) ==
    IF n = 0 THEN << >> ELSE insertSorted(sortResults(results, n - 1), results[n])

\* the loop of scanEnv over Object.entries(env), from the i-th entry on
RECURSIVE collectMatches(_, _)
collectMatches(entries, i) ==
    IF i > Len(entries) THEN << >>
    ELSE (IF isUnset(entries[i].value) THEN << >>
          ELSE matchEnvVar(entries[i].name, get(entries[i].value)))
         \o collectMatches(entries, i + 1)

\* env is Object.entries(env): the variables in iteration order, the value
\* of each an Option that is None for undefined
scanEnv(entries) ==
    LET results == collectMatches(entries, 1)
    IN  sortResults(results, Len(results))

-----------------------------------------------------------------------------
(* Inputs of the pattern registry                                          *)

ExactNames == { EXACT_NAME_PATTERNS[i].pattern : i \in 1..Len(EXACT_NAME_PATTERNS) }
SuffixNames == { SUFFIX_PATTERNS[i].suffix : i \in 1..Len(SUFFIX_PATTERNS) }
Prefixes == { VALUE_SHAPE_PATTERNS[i].prefix : i \in 1..Len(VALUE_SHAPE_PATTERNS) }
DeriveSuffixes == { suffixes[i] : i \in 1..Len(suffixes) }

\* what comes before the suffix of a probed name
Stems == { "", "ACME", "MY_APP", "Custom_2" }

ProbeNames ==
    EXCLUDED_VARS \cup ExactNames
    \cup { stem \o s : stem \in Stems, s \in DeriveSuffixes \cup SuffixNames }
    \cup { "SOMETHING", "MY_APP_PORT", "TOKEN", "A_TOKEN_TOKEN", "ACME_TOKEN_ID", "acme_token" }

ProbeValues ==
    { "", "hunter2", "sk", "SK-ANT-", "x-sk-ant-" }
    \cup Prefixes
    \cup { p \o "9f" : p \in Prefixes }

IdleProbe == [name |-> "", value |-> ""]

\* the variables of an environment and the values they may have
ScanNames == { "PATH", "OPENAI_API_KEY", "GCP_PROJECT_ID", "ACME_API_KEY", "MY_APP_PORT", "A_B_TOKEN", "AB_TOKEN" }
ScanValues == { None, Some(""), Some("sk-ant-api03"), Some("hunter2") }

Envs ==
    { e \in UNION { [1..n -> [name : ScanNames, value : ScanValues]] : n \in 0..MaxEnvSize } :
        \A i, j \in 1..Len(e) : i # j => e[i].name # e[j].name }

-----------------------------------------------------------------------------
(* Drift checker (src/core/env.ts)                                         *)

\* a presence test that takes a variable set to the empty string as present
present_DefinedOnly(entries, key) ==
    \E i \in 1..Len(entries) : entries[i].name = key /\ isSome(entries[i].value)

\* env[key] !== undefined && env[key] !== ""
present(entries, key) ==
    \E i \in 1..Len(entries) :
        entries[i].name = key /\ isSome(entries[i].value) /\ get(entries[i].value) # ""

\* env is Object.entries(env), as for scanEnv
envCheck(cfg, entries) ==
    LET metaKeys == ObjectKeys(cfg.meta)
        trackedSet == DOMAIN cfg.meta
        direction1 ==
            [i \in 1..Len(metaKeys) |->
                [ envVar     |-> metaKeys[i],
                  service    |-> Field(cfg.meta[metaKeys[i]], "service"),
                  status     |-> IF present(entries, metaKeys[i]) THEN "tracked" ELSE "missing_from_env",
                  confidence |-> None ]]
        NotTracked(match) == match.envVar \notin trackedSet
        envMatches == SelectSeq(scanEnv(entries), NotTracked)
        direction2 ==
            [i \in 1..Len(envMatches) |->
                [ envVar     |-> envMatches[i].envVar,
                  service    |-> envMatches[i].service,
                  status     |-> "untracked",
                  confidence |-> Some(envMatches[i].confidence) ]]
        entriesOut == direction1 \o direction2
        missing_from_env == Count(entriesOut, "missing_from_env")
        untracked_credentials == Count(entriesOut, "untracked")
    IN  [ entries               |-> entriesOut,
          tracked_and_present   |-> Count(entriesOut, "tracked"),
          missing_from_env      |-> missing_from_env,
          untracked_credentials |-> untracked_credentials,
          is_clean              |-> missing_from_env = 0 /\ untracked_credentials = 0 ]

\* the configs handed to envCheck: any of three names tracked, with or without a service
CheckConfigs ==
    { [version |-> 1, meta |-> m] :
        m \in UNION { [D -> { << >>, [service |-> "svc"] }] :
                        D \in SUBSET { "OPENAI_API_KEY", "ACME_API_KEY", "MY_APP_PORT" } } }

-----------------------------------------------------------------------------
(* Boot (src/core/boot.ts)                                                 *)

WarnOnlyWarning(auditResult) ==
    [msg |-> "secret(s) have expired (warn-only mode)", expired |-> auditResult.expired]

\* an expiration check that fails the boot in warn-only mode too
checkExpiration_IgnoreWarnOnly(auditResult, failOnExpired, warnOnly) ==
    IF auditResult.expired > 0 /\ failOnExpired
    THEN Left([_tag |-> "AuditFailed", audit |-> auditResult, expired |-> auditResult.expired])
    ELSE Right(IF auditResult.expired > 0 /\ warnOnly THEN <<WarnOnlyWarning(auditResult)>> ELSE << >>)

checkExpiration(auditResult, failOnExpired, warnOnly) ==
    IF auditResult.expired > 0 /\ failOnExpired /\ ~warnOnly
    THEN Left([_tag |-> "AuditFailed", audit |-> auditResult, expired |-> auditResult.expired])
    ELSE Right(IF auditResult.expired > 0 /\ warnOnly THEN <<WarnOnlyWarning(auditResult)>> ELSE << >>)

\* the environment after a write of every secret, whatever inject says
injectInto_Always(penv, inject, secrets) ==
    [k \in DOMAIN penv \cup DOMAIN secrets |-> IF k \in DOMAIN secrets THEN secrets[k] ELSE penv[k]]

\* if (inject) for (const [key, value] of Object.entries(secrets)) process.env[key] = value
injectInto(penv, inject, secrets) ==
    IF inject
    THEN [k \in DOMAIN penv \cup DOMAIN secrets |-> IF k \in DOMAIN secrets THEN secrets[k] ELSE penv[k]]
    ELSE penv

\* The Either bootSafe returns and process.env after the call.  file is what
\* the config path holds, ident what unwrapAgentKey yields for an identity
\* file, keys what detectFnoxKeys finds, cli the state of the fnox CLI.
bootSafe(opts, file, ident, keys, cli, wallClock, penv) ==
    LET inject == OrElse(Field(opts, "inject"), TRUE) # FALSE
        failOnExpired == OrElse(Field(opts, "failOnExpired"), TRUE) # FALSE
        warnOnly == OrElse(Field(opts, "warnOnly"), FALSE)
        loaded == loadConfig(<<AgentDir, "envpkt.toml">>, file)
        cfg == loaded.value
        hasIdentity == "agent" \in DOMAIN cfg /\ "identity" \in DOMAIN cfg.agent
        bootAudit == computeAudit(cfg, Some(keys), None, wallClock)
        expiration == checkExpiration(bootAudit, failOnExpired, warnOnly)
        metaKeys == ObjectKeys(cfg.meta)
        exported == IF cli.available /\ isRight(cli.export) THEN cli.export.value ELSE << >>
        InExported(key) == key \in DOMAIN exported
        NotExported(key) == key \notin DOMAIN exported
        injected == SelectSeq(metaKeys, InExported)
        secrets == [k \in DOMAIN cfg.meta \cap DOMAIN exported |-> exported[k]]
        warnings ==
            expiration.value
            \o (IF ~cli.available THEN << [msg |-> "fnox not available"] >>
                ELSE IF isLeft(cli.export) THEN << [msg |-> "fnox export failed"] >>
                ELSE << >>)
    IN  IF isLeft(loaded) THEN [ result |-> loaded, env |-> penv ]
        ELSE IF hasIdentity /\ ident # "ok" THEN [ result |-> Left([_tag |-> ident]), env |-> penv ]
        ELSE IF isLeft(expiration) THEN [ result |-> expiration, env |-> penv ]
        ELSE [ result |-> Right([ audit    |-> bootAudit,
                                  injected |-> injected,
                                  skipped  |-> SelectSeq(metaKeys, NotExported),
                                  secrets  |-> secrets,
                                  warnings |-> warnings ]),
               env    |-> injectInto(penv, inject, secrets) ]

-----------------------------------------------------------------------------
(* Inputs of boot                                                          *)

BootOptionVals == [inject |-> BOOLEAN, failOnExpired |-> BOOLEAN, warnOnly |-> BOOLEAN]

\* no agent section, an agent, an agent with an identity file, and agents
\* that list the secrets they take from a catalog
BootAgents ==
    { << >>,
      [agent |-> [name |-> "pipeline"]],
      [agent |-> [name |-> "pipeline", identity |-> "agent.age"]],
      [agent |-> [name |-> "pipeline", secrets |-> <<"A">>]],
      [agent |-> [name |-> "pipeline", secrets |-> <<"A">>], catalog |-> CatalogRef],
      [agent |-> [name |-> "pipeline", secrets |-> <<"A", "B">>], catalog |-> CatalogRef] }

\* each secret without dates, expired the day before the boot, or expiring
\* thirty days after it
BootConfigs ==
    { [f \in DOMAIN a \cup {"version", "meta"} |->
          IF f = "version" THEN 1 ELSE IF f = "meta" THEN m ELSE a[f]] :
      a \in BootAgents,
      m \in UNION { [D -> { [service |-> "svc"],
                            [service |-> "svc", expires |-> [y |-> 2025, m |-> 6, d |-> 14]],
                            [service |-> "svc", expires |-> [y |-> 2025, m |-> 7, d |-> 15]] }] :
                      D \in SUBSET MetaKeys } }

\* fnox is not installed, its export fails, or it exports some of the keys
FnoxClis ==
    { [available |-> FALSE],
      [available |-> TRUE, export |-> Left([_tag |-> "FnoxCliError"])] }
    \cup { [available |-> TRUE, export |-> Right([k \in D |-> "exported"])] : D \in SUBSET {"A", "C"} }

\* process.env before the boot
BootEnv == [A |-> "stale", HOME |-> "/root"]

\* the catalog the boot configs refer to
BootCatalog ==
    [ version |-> 1,
      meta    |-> [k \in CatalogKeys |-> [service |-> "postgres"]] ]

-----------------------------------------------------------------------------
(* Audit command (src/cli/commands/audit.ts, src/cli/output.ts)            *)

\* an exit code that tells critical from the rest only
exitCodeForAudit_CriticalOnly(auditResult) == IF auditResult.status = "critical" THEN 2 ELSE 0

exitCodeForAudit(auditResult) ==
    CASE auditResult.status = "healthy" -> 0
      [] auditResult.status = "degraded" -> 1
      [] auditResult.status = "critical" -> 2

\* The audit handed to the formatter and the code handed to process.exit.
runAuditOnConfig(cfg, options, wallClock) ==
    LET strict == OrElse(Field(options, "strict"), FALSE)
        HasStatus(s) == s.status = options.status
        ExpiresWithin(s) ==
            /\ isSome(s.days_remaining)
            /\ get(s.days_remaining) >= 0
            /\ get(s.days_remaining) <= options.expiring
        ByStatus(secrets) ==
            IF "status" \in DOMAIN options THEN SelectSeq(secrets, HasStatus) ELSE secrets
        ByExpiring(secrets) ==
            IF "expiring" \in DOMAIN options THEN SelectSeq(secrets, ExpiresWithin) ELSE secrets
        \* what the command does with the audit computeAudit(config) returned
        Exit(auditResult) ==
            [ printed |-> [auditResult EXCEPT !.secrets = ByExpiring(ByStatus(auditResult.secrets))],
              code    |-> IF strict THEN exitCodeForAudit(auditResult)
                          ELSE IF auditResult.status = "critical" THEN 2 ELSE 0 ]
    IN  Exit(computeAudit(cfg, None, None, wallClock))

\* the options of the audit command besides --config and --format
AuditOptionVals == [status |-> {"expired", "healthy"}, expiring |-> {0, 30}, strict |-> BOOLEAN]

\* each secret bare, with a service, expired the day before the start of the
\* clock, or expiring thirty days after it
CliConfigs ==
    { [version |-> 1, meta |-> m, lifecycle |-> l] :
      m \in UNION { [D -> { << >>,
                            [service |-> "svc"],
                            [service |-> "svc", expires |-> [y |-> 2025, m |-> 6, d |-> 14]],
                            [service |-> "svc", expires |-> [y |-> 2025, m |-> 7, d |-> 15]] }] :
                      D \in SUBSET MetaKeys },
      l \in { << >>, [require_service |-> TRUE] } }

-----------------------------------------------------------------------------
(* The resolver as a state machine                                         *)

\* no drift check, audit command or boot has run
ToolsIdle ==
    /\ checked = None
    /\ auditOpts = << >>
    /\ printed = None
    /\ exitCode = None
    /\ bootOpts = << >>
    /\ configFile = FileAbsent
    /\ identity = "ok"
    /\ fnoxCli = [available |-> FALSE]
    /\ processEnv = << >>
    /\ booted = None

\* no matching function has been called
PatternIdle ==
    /\ probe = IdleProbe
    /\ matched = None
    /\ shape = None
    /\ derived = None
    /\ env = << >>
    /\ scanned = None

ResolveInit ==
    /\ agentConfig \in AgentConfigs
    /\ fs \in Files
    /\ resolved = None
    /\ catalogLoads = 0
    /\ PatternIdle
    /\ ToolsIdle
    /\ config = [version |-> 1, meta |-> << >>]
    /\ fnoxKeys = None
    /\ clock = ClockStart
    /\ auditArgs = None
    /\ audit = None
    /\ auditAt = None
    /\ replayed = FALSE

\* a caller runs resolveConfig(agentConfig, agentConfigDir)
Resolve ==
    /\ LET r == resolveConfig(agentConfig, AgentDir, fs)
       IN  /\ resolved' = Some(r.result)
           /\ catalogLoads' = r.loads
    /\ UNCHANGED <<agentConfig, fs>>
    /\ UNCHANGED auditVars
    /\ UNCHANGED patternVars
    /\ UNCHANGED toolVars

ResolveNext == Resolve

ResolveSpec == ResolveInit /\ [][ResolveNext]_vars

-----------------------------------------------------------------------------
(* The audit as a state machine                                            *)

\* One audit of any config at any instant of the wall clock.
Init ==
    /\ config \in AuditConfigs
    /\ fnoxKeys \in FnoxKeySets
    /\ clock \in ClockStart..(ClockStart + MaxTicks)
    /\ auditArgs = None
    /\ audit = None
    /\ auditAt = None
    /\ replayed = FALSE
    /\ agentConfig = IdleAgentConfig
    /\ fs = FileAbsent
    /\ resolved = None
    /\ catalogLoads = 0
    /\ PatternIdle
    /\ ToolsIdle

\* a caller runs computeAudit(config, fnoxKeys, today)
Audit(today) ==
    /\ audit' = Some(computeAudit(config, fnoxKeys, today, clock))
    /\ auditArgs' = Some(today)
    /\ auditAt' = Some(clock)
    /\ replayed' = (auditArgs = Some(today) /\ get(auditAt) < clock)
    /\ UNCHANGED <<config, fnoxKeys, clock>>
    /\ UNCHANGED resolveVars
    /\ UNCHANGED patternVars
    /\ UNCHANGED toolVars

AuditCall == \E today \in Todays : Audit(today)

Next == AuditCall

Spec == Init /\ [][Next]_vars

\* Audits of one config repeated while time passes: the configs with at most
\* the secret ReplayKeys names.
ReplayKeys == {"A"}

ReplayInit ==
    /\ config \in { c \in AuditConfigs : DOMAIN c.meta \subseteq ReplayKeys }
    /\ fnoxKeys \in FnoxKeySets
    /\ clock = ClockStart
    /\ auditArgs = None
    /\ audit = None
    /\ auditAt = None
    /\ replayed = FALSE
    /\ agentConfig = IdleAgentConfig
    /\ fs = FileAbsent
    /\ resolved = None
    /\ catalogLoads = 0
    /\ PatternIdle
    /\ ToolsIdle

\* time passes
Tick ==
    /\ clock < ClockStart + MaxTicks
    /\ clock' = clock + 1
    /\ UNCHANGED <<config, fnoxKeys, auditArgs, audit, auditAt, replayed>>
    /\ UNCHANGED resolveVars
    /\ UNCHANGED patternVars
    /\ UNCHANGED toolVars

ReplayNext == Tick \/ AuditCall

ReplaySpec == ReplayInit /\ [][ReplayNext]_vars

-----------------------------------------------------------------------------
(* The pattern registry as a state machine                                 *)

\* no audit and no resolution is under way
EnginesIdle ==
    /\ config = [version |-> 1, meta |-> << >>]
    /\ fnoxKeys = None
    /\ clock = ClockStart
    /\ auditArgs = None
    /\ audit = None
    /\ auditAt = None
    /\ replayed = FALSE
    /\ agentConfig = IdleAgentConfig
    /\ fs = FileAbsent
    /\ resolved = None
    /\ catalogLoads = 0

MatchInit ==
    /\ probe \in [name : ProbeNames, value : ProbeValues]
    /\ matched = None
    /\ shape = None
    /\ derived = None
    /\ env = << >>
    /\ scanned = None
    /\ EnginesIdle
    /\ ToolsIdle

\* a caller runs matchEnvVar(name, value)
MatchCall ==
    /\ matched' = Some(matchEnvVar(probe.name, probe.value))
    /\ UNCHANGED <<probe, shape, derived, env, scanned>>
    /\ UNCHANGED <<auditVars, resolveVars, toolVars>>

\* a caller runs matchValueShape(value)
ShapeCall ==
    /\ shape' = Some(matchValueShape(probe.value))
    /\ UNCHANGED <<probe, matched, derived, env, scanned>>
    /\ UNCHANGED <<auditVars, resolveVars, toolVars>>

\* a caller runs deriveServiceFromName(name)
DeriveCall ==
    /\ derived' = Some(deriveServiceFromName(probe.name))
    /\ UNCHANGED <<probe, matched, shape, env, scanned>>
    /\ UNCHANGED <<auditVars, resolveVars, toolVars>>

MatchNext == MatchCall \/ ShapeCall \/ DeriveCall

MatchSpec == MatchInit /\ [][MatchNext]_vars

ScanInit ==
    /\ env \in Envs
    /\ scanned = None
    /\ probe = IdleProbe
    /\ matched = None
    /\ shape = None
    /\ derived = None
    /\ EnginesIdle
    /\ ToolsIdle

\* a caller runs scanEnv(env)
Scan ==
    /\ scanned' = Some(scanEnv(env))
    /\ UNCHANGED <<probe, matched, shape, derived, env>>
    /\ UNCHANGED <<auditVars, resolveVars, toolVars>>

\* a caller runs matchEnvVar on the i-th variable of the environment, which
\* has a value
MatchEntry(i) ==
    /\ isSome(env[i].value)
    /\ probe' = [name |-> env[i].name, value |-> get(env[i].value)]
    /\ matched' = Some(matchEnvVar(env[i].name, get(env[i].value)))
    /\ UNCHANGED <<shape, derived, env, scanned>>
    /\ UNCHANGED <<auditVars, resolveVars, toolVars>>

ScanNext == Scan \/ \E i \in 1..Len(env) : MatchEntry(i)

ScanSpec == ScanInit /\ [][ScanNext]_vars

-----------------------------------------------------------------------------
(* The drift checker as a state machine                                    *)

CheckInit ==
    /\ config \in CheckConfigs
    /\ env \in Envs
    /\ checked = None
    /\ fnoxKeys = None
    /\ clock = ClockStart
    /\ auditArgs = None
    /\ audit = None
    /\ auditAt = None
    /\ replayed = FALSE
    /\ agentConfig = IdleAgentConfig
    /\ fs = FileAbsent
    /\ resolved = None
    /\ catalogLoads = 0
    /\ probe = IdleProbe
    /\ matched = None
    /\ shape = None
    /\ derived = None
    /\ scanned = None
    /\ auditOpts = << >>
    /\ printed = None
    /\ exitCode = None
    /\ bootOpts = << >>
    /\ configFile = FileAbsent
    /\ identity = "ok"
    /\ fnoxCli = [available |-> FALSE]
    /\ processEnv = << >>
    /\ booted = None

\* a caller runs envCheck(config, env)
EnvCheck ==
    /\ checked' = Some(envCheck(config, env))
    /\ UNCHANGED <<auditVars, resolveVars, patternVars>>
    /\ UNCHANGED <<auditOpts, printed, exitCode, bootOpts, configFile, identity, fnoxCli, processEnv, booted>>

CheckSpec == CheckInit /\ [][EnvCheck]_vars

-----------------------------------------------------------------------------
(* Boot as a state machine                                                 *)

BootInit ==
    /\ bootOpts \in Objects(BootOptionVals)
    /\ configFile \in { FileAbsent, FileBadToml } \cup { FileConfig(c) : c \in BootConfigs }
    /\ identity \in { "ok", "IdentityNotFound", "DecryptFailed" }
    /\ fnoxCli \in FnoxClis
    /\ fnoxKeys \in { Some({}), Some({"A"}) }
    /\ fs \in { FileAbsent, FileConfig(BootCatalog) }
    /\ processEnv = BootEnv
    /\ booted = None
    /\ clock = ClockStart
    /\ config = [version |-> 1, meta |-> << >>]
    /\ auditArgs = None
    /\ audit = None
    /\ auditAt = None
    /\ replayed = FALSE
    /\ agentConfig = IdleAgentConfig
    /\ resolved = None
    /\ catalogLoads = 0
    /\ PatternIdle
    /\ checked = None
    /\ auditOpts = << >>
    /\ printed = None
    /\ exitCode = None

\* a caller runs bootSafe(bootOpts)
Boot ==
    /\ LET r == bootSafe(bootOpts, configFile, identity, get(fnoxKeys), fnoxCli, clock, processEnv)
       IN  /\ booted' = Some(r.result)
           /\ processEnv' = r.env
    /\ UNCHANGED <<auditVars, resolveVars, patternVars>>
    /\ UNCHANGED <<checked, auditOpts, printed, exitCode, bootOpts, configFile, identity, fnoxCli>>

BootSpec == BootInit /\ [][Boot]_vars

-----------------------------------------------------------------------------
(* The audit command as a state machine                                    *)

CliInit ==
    /\ config \in CliConfigs
    /\ auditOpts \in Objects(AuditOptionVals)
    /\ clock \in ClockStart..(ClockStart + MaxTicks)
    /\ printed = None
    /\ exitCode = None
    /\ fnoxKeys = None
    /\ auditArgs = None
    /\ audit = None
    /\ auditAt = None
    /\ replayed = FALSE
    /\ agentConfig = IdleAgentConfig
    /\ fs = FileAbsent
    /\ resolved = None
    /\ catalogLoads = 0
    /\ PatternIdle
    /\ checked = None
    /\ bootOpts = << >>
    /\ configFile = FileAbsent
    /\ identity = "ok"
    /\ fnoxCli = [available |-> FALSE]
    /\ processEnv = << >>
    /\ booted = None

\* the audit command runs runAuditOnConfig(config, auditOpts) on a resolved config
RunAudit ==
    /\ LET r == runAuditOnConfig(config, auditOpts, clock)
       IN  /\ printed' = Some(r.printed)
           /\ exitCode' = Some(r.code)
    /\ UNCHANGED <<auditVars, resolveVars, patternVars>>
    /\ UNCHANGED <<checked, auditOpts, bootOpts, configFile, identity, fnoxCli, processEnv, booted>>

CliSpec == CliInit /\ [][RunAudit]_vars

-----------------------------------------------------------------------------
(* Properties of the audit engine                                          *)

\* the last AuditResult, the arguments it was computed from and its instant
Result == get(audit)
TodayArg == get(auditArgs)
Now == IF isSome(TodayArg) THEN get(TodayArg) ELSE get(auditAt)
Audited == isSome(audit)
Secrets == { Result.secrets[i] : i \in 1..Len(Result.secrets) }

Policy(f, dflt) == IF "lifecycle" \in DOMAIN config /\ f \in DOMAIN config.lifecycle
                   THEN config.lifecycle[f] ELSE dflt

Known == IF isSome(fnoxKeys) THEN get(fnoxKeys) ELSE {}

\* the instant a date field of the secret's meta denotes, if it denotes one
DateOf(s, f) ==
    IF f \in DOMAIN config.meta[s.key] /\ IsValidDateStr(config.meta[s.key][f])
    THEN Some(DateUTC(config.meta[s.key][f])) ELSE None

\* the five conditions of a secret, stated from the inputs of the audit
CondExpired(s) == isSome(DateOf(s, "expires")) /\ get(DateOf(s, "expires")) < Now
CondMissing(s) == Known # {} /\ s.key \notin Known
CondMissingMetadata(s) ==
    \/ Policy("require_expiration", FALSE) /\ isNone(DateOf(s, "expires"))
    \/ Policy("require_service", FALSE) /\ "service" \notin DOMAIN config.meta[s.key]
CondExpiringSoon(s) ==
    /\ isSome(DateOf(s, "expires"))
    /\ get(DateOf(s, "expires")) >= Now
    /\ get(DateOf(s, "expires")) - Now < (WARN_BEFORE_DAYS + 1) * MS_PER_DAY
CondStale(s) ==
    /\ isSome(DateOf(s, "created"))
    /\ Now - get(DateOf(s, "created")) >= (Policy("stale_warning_days", DefaultStaleWarningDays) + 1) * MS_PER_DAY

\* C1: the status of every audited secret is the first true condition in the
\* order expired, missing, missing_metadata, expiring_soon, stale, and healthy
\* only if none is true; a secret whose days_remaining is below 0 is expired.
C1_StatusPriority ==
    Audited =>
        \A s \in Secrets :
            /\ s.status = ( IF CondExpired(s) THEN "expired"
                            ELSE IF CondMissing(s) THEN "missing"
                            ELSE IF CondMissingMetadata(s) THEN "missing_metadata"
                            ELSE IF CondExpiringSoon(s) THEN "expiring_soon"
                            ELSE IF CondStale(s) THEN "stale"
                            ELSE "healthy" )
            /\ (isSome(s.days_remaining) /\ get(s.days_remaining) < 0) => s.status = "expired"

\* an expired secret that is also missing, stale and lacks a required field
C1_Witness ==
    /\ Audited
    /\ \E s \in Secrets :
          /\ s.status = "expired"
          /\ CondMissing(s) /\ CondMissingMetadata(s) /\ CondStale(s)

\* C2: the aggregate status is critical iff some secret is expired or missing,
\* degraded iff none is and some secret is expiring_soon, stale or
\* missing_metadata, and healthy otherwise (also with no secrets).
C2_AggregateStatus ==
    Audited =>
        LET critical == \E s \in Secrets : s.status \in {"expired", "missing"}
            degraded == /\ ~critical
                        /\ \E s \in Secrets : s.status \in {"expiring_soon", "stale", "missing_metadata"}
        IN  /\ Result.status = "critical" <=> critical
            /\ Result.status = "degraded" <=> degraded
            /\ Result.status = "healthy" <=> (~critical /\ ~degraded)

\* a degraded audit that owes it to a missing_metadata secret next to a healthy one
C2_Witness ==
    /\ Audited
    /\ Result.status = "degraded"
    /\ \E s \in Secrets : s.status = "missing_metadata"
    /\ \E s \in Secrets : s.status = "healthy"

\* C6 as stated: every secret whose expires is exactly 30 days after the audit
\* date has status expiring_soon, and none whose expires is 31 days after has.
C6_Original ==
    Audited =>
        \A s \in Secrets :
            /\ (isSome(DateOf(s, "expires")) /\ get(DateOf(s, "expires")) - Now = 30 * MS_PER_DAY)
                   => s.status = "expiring_soon"
            /\ (isSome(DateOf(s, "expires")) /\ get(DateOf(s, "expires")) - Now = 31 * MS_PER_DAY)
                   => s.status # "expiring_soon"

\* C6: a secret whose expires is exactly 30 days after the audit date meets
\* the expiring-soon condition (it lists the issue) and has status
\* expiring_soon unless it is missing or lacks required metadata; a secret
\* whose expires is 31 days after the audit date neither lists the issue nor
\* has that status; the window is 30 days under every lifecycle policy.
C6_ExpiringWindow ==
    Audited =>
        \A s \in Secrets :
            /\ (isSome(DateOf(s, "expires")) /\ get(DateOf(s, "expires")) - Now = 30 * MS_PER_DAY)
                   => /\ IssueExpiring(30) \in { s.issues[i] : i \in 1..Len(s.issues) }
                      /\ (~CondMissing(s) /\ ~CondMissingMetadata(s)) => s.status = "expiring_soon"
            /\ (isSome(DateOf(s, "expires")) /\ get(DateOf(s, "expires")) - Now = 31 * MS_PER_DAY)
                   => /\ s.status # "expiring_soon"
                      /\ \A i \in 1..Len(s.issues) : s.issues[i].msg # IssueExpiring(31).msg

\* one secret 30 days from expiry and expiring_soon, another 31 days from it,
\* under a policy whose stale_warning_days is not the default
C6_Witness ==
    /\ Audited
    /\ Policy("stale_warning_days", DefaultStaleWarningDays) # DefaultStaleWarningDays
    /\ \E s \in Secrets : /\ s.days_remaining = Some(30)
                          /\ get(DateOf(s, "expires")) - Now = 30 * MS_PER_DAY
                          /\ s.status = "expiring_soon"
    /\ \E s \in Secrets : /\ s.days_remaining = Some(31)
                          /\ get(DateOf(s, "expires")) - Now = 31 * MS_PER_DAY

\* C7: with the known-key set absent or empty no secret is missing, none
\* lists the key-not-found issue and the missing count is 0; with a non-empty
\* set a secret lists the issue exactly when its key is not in the set.
C7_MissingDetection ==
    Audited =>
        /\ (isNone(fnoxKeys) \/ fnoxKeys = Some({})) =>
              /\ \A s \in Secrets : /\ s.status # "missing"
                                    /\ \A i \in 1..Len(s.issues) : s.issues[i] # IssueMissing
              /\ Result.missing = 0
        /\ (isSome(fnoxKeys) /\ get(fnoxKeys) # {}) =>
              \A s \in Secrets :
                  /\ (\E i \in 1..Len(s.issues) : s.issues[i] = IssueMissing) <=> s.key \notin get(fnoxKeys)
                  /\ s.status = "missing" => s.key \notin get(fnoxKeys)

\* an empty known-key set was supplied for a config with two secrets
C7_Witness ==
    /\ Audited
    /\ fnoxKeys = Some({})
    /\ Result.total = 2
    /\ Result.missing = 0

C10_NoExpires ==
    Audited =>
        /\ \A s \in Secrets :
              isNone(DateOf(s, "expires")) =>
                  /\ s.days_remaining = None
                  /\ s.status \notin {"expired", "expiring_soon"}
                  /\ \A i \in 1..Len(s.issues) :
                        s.issues[i].msg \notin {IssueExpired.msg, IssueExpiring(0).msg}
        /\ (\A k \in DOMAIN config.meta : "expires" \notin DOMAIN config.meta[k]) =>
              /\ Result.expired = 0
              /\ Result.expiring_soon = 0

\* a secret whose expires is not a date was audited next to one without expires
C10_Witness ==
    /\ Audited
    /\ \E s \in Secrets : /\ "expires" \in DOMAIN config.meta[s.key]
                          /\ ~IsValidDateStr(config.meta[s.key].expires)
                          /\ s.days_remaining = None
    /\ \E s \in Secrets : "expires" \notin DOMAIN config.meta[s.key]

IssuesOf(s) == { s.issues[i] : i \in 1..Len(s.issues) }
CondNoExpiration(s) == Policy("require_expiration", FALSE) /\ isNone(DateOf(s, "expires"))
CondNoService(s) == Policy("require_service", FALSE) /\ "service" \notin DOMAIN config.meta[s.key]
TrueConds(s) ==
    { c \in {"expired", "expiring", "stale", "missing", "noexpiration", "noservice"} :
        \/ c = "expired" /\ CondExpired(s)
        \/ c = "expiring" /\ CondExpiringSoon(s)
        \/ c = "stale" /\ CondStale(s)
        \/ c = "missing" /\ CondMissing(s)
        \/ c = "noexpiration" /\ CondNoExpiration(s)
        \/ c = "noservice" /\ CondNoService(s) }

\* C11: the issues of every audited secret hold one message for each
\* condition that is true of it (expired, expiring soon, stale, key not
\* found, missing required expiration, missing required service) and none
\* for a condition that is false, whatever its status; the list is empty
\* exactly when the status is healthy.
C11_IssuesAdditive ==
    Audited =>
        \A s \in Secrets :
            /\ [msg |-> "Secret has expired"] \in IssuesOf(s) <=> CondExpired(s)
            /\ (\E x \in IssuesOf(s) : x.msg = "Expires in N days") <=> CondExpiringSoon(s)
            /\ [msg |-> "Secret is stale (no rotation detected)"] \in IssuesOf(s) <=> CondStale(s)
            /\ [msg |-> "Key not found in fnox"] \in IssuesOf(s) <=> CondMissing(s)
            /\ [msg |-> "Missing required expiration date"] \in IssuesOf(s) <=> CondNoExpiration(s)
            /\ [msg |-> "Missing required service"] \in IssuesOf(s) <=> CondNoService(s)
            /\ Len(s.issues) = Cardinality(TrueConds(s))
            /\ s.issues = << >> <=> s.status = "healthy"

\* an expired secret that lacks the required service lists both issues
C11_Witness ==
    /\ Audited
    /\ \E s \in Secrets : /\ s.status = "expired"
                          /\ CondNoService(s)
                          /\ IssueExpired \in IssuesOf(s)
                          /\ IssueNoService \in IssuesOf(s)
    /\ \E s \in Secrets : s.status = "healthy" /\ s.issues = << >>

\* the rank of an issue in the status priority
StatusRank(x) ==
    CASE x.msg = "Secret has expired" -> 1
      [] x.msg = "Key not found in fnox" -> 2
      [] x.msg \in {"Missing required expiration date", "Missing required service"} -> 3
      [] x.msg = "Expires in N days" -> 4
      [] x.msg = "Secret is stale (no rotation detected)" -> 5

\* the rank of an issue in the order the conditions are tested for issues
PushRank(x) ==
    CASE x.msg = "Secret has expired" -> 1
      [] x.msg = "Expires in N days" -> 2
      [] x.msg = "Secret is stale (no rotation detected)" -> 3
      [] x.msg = "Key not found in fnox" -> 4
      [] x.msg = "Missing required expiration date" -> 5
      [] x.msg = "Missing required service" -> 6

\* C12 as stated: of two issues of a secret, the one whose condition ranks
\* higher in the status priority comes first.
C12_Original ==
    Audited =>
        \A s \in Secrets :
            \A i, j \in 1..Len(s.issues) : i < j => StatusRank(s.issues[i]) <= StatusRank(s.issues[j])

\* C12: the issues of a secret are in the fixed order expired, expiring soon,
\* stale, key not found, missing required expiration, missing required
\* service, each at most once.
C12_IssueOrder ==
    Audited =>
        \A s \in Secrets :
            \A i, j \in 1..Len(s.issues) : i < j => PushRank(s.issues[i]) < PushRank(s.issues[j])

\* a secret that is stale and not found lists the stale issue first although
\* missing outranks stale
C12_Witness ==
    /\ Audited
    /\ \E s \in Secrets : /\ Len(s.issues) >= 2
                          /\ \E i, j \in 1..Len(s.issues) :
                                /\ i < j
                                /\ s.issues[i] = IssueStale
                                /\ s.issues[j] = IssueMissing
                          /\ s.status = "missing"

\* C27: the secrets of an AuditResult are one per key of config.meta, each
\* with one of the six statuses; total is the number of keys; each count is
\* the number of secrets with its status, so the six counts add up to total,
\* orphaned not being one of them.
C27_CountsPartition ==
    Audited =>
        /\ Len(Result.secrets) = Cardinality(DOMAIN config.meta)
        /\ { s.key : s \in Secrets } = DOMAIN config.meta
        /\ \A i, j \in 1..Len(Result.secrets) :
              Result.secrets[i].key = Result.secrets[j].key => i = j
        /\ \A s \in Secrets :
              s.status \in {"healthy", "expiring_soon", "expired", "stale", "missing", "missing_metadata"}
        /\ Result.total = Cardinality(DOMAIN config.meta)
        /\ \A st \in {"healthy", "expiring_soon", "expired", "stale", "missing", "missing_metadata"} :
              Result[st] = Cardinality({ i \in 1..Len(Result.secrets) : Result.secrets[i].status = st })
        /\ Result.healthy + Result.expiring_soon + Result.expired + Result.stale
              + Result.missing + Result.missing_metadata = Result.total

\* two secrets, one expired and also not found, the other healthy, with an
\* orphaned count that the sum leaves out
C27_Witness ==
    /\ Audited
    /\ Result.total = 2
    /\ Result.expired = 1
    /\ Result.healthy = 1
    /\ Result.orphaned = 1
    /\ \E s \in Secrets : s.status = "expired" /\ CondMissing(s)

Severity(status) == IF status = "healthy" THEN 0 ELSE IF status = "degraded" THEN 1 ELSE 2

\* C28: when an audit of the same config and known-key set follows one of an
\* earlier or equal audit date, no secret's days_remaining is greater than
\* before, a secret that was expired is expired, a secret that was not
\* healthy is not healthy, and the aggregate status is not less severe.
C28_Monotone ==
    [][ (Audited /\ Audited' /\ Now' >= Now) =>
            /\ \A i \in 1..Len(Result.secrets) :
                  /\ Result'.secrets[i].key = Result.secrets[i].key
                  /\ isSome(Result.secrets[i].days_remaining) =>
                        /\ isSome(Result'.secrets[i].days_remaining)
                        /\ get(Result'.secrets[i].days_remaining) <= get(Result.secrets[i].days_remaining)
                  /\ Result.secrets[i].status = "expired" => Result'.secrets[i].status = "expired"
                  /\ Result.secrets[i].status # "healthy" => Result'.secrets[i].status # "healthy"
            /\ Severity(Result'.status) >= Severity(Result.status) ]_vars

\* after the clock advanced, an audit finds expired a secret whose expires
\* is the day the clock started at, where an audit at the start finds it
\* expiring soon
C28_Witness ==
    /\ Audited
    /\ clock > ClockStart
    /\ Now > ClockStart
    /\ \E s \in Secrets : /\ DateOf(s, "expires") = Some(ClockStart)
                          /\ s.days_remaining = Some(-1)
                          /\ s.status = "expired"
    /\ Result.status = "critical"

\* the UTC calendar day an instant falls in
DayOf(instant) == instant \div MS_PER_DAY

\* C29: the days_remaining of a secret is the number of calendar days from
\* the UTC day of the audit date to its expires date, the same at every time
\* of that day, and its status is the one classifySecret gives at the start
\* of that day; on the day of its expires date days_remaining is 0 and the
\* secret is not expired.
C29_CalendarDay ==
    Audited =>
        \A s \in Secrets :
            /\ isSome(DateOf(s, "expires")) =>
                  /\ s.days_remaining = Some(DayOf(get(DateOf(s, "expires"))) - DayOf(Now))
                  /\ DayOf(get(DateOf(s, "expires"))) = DayOf(Now) =>
                        /\ s.days_remaining = Some(0)
                        /\ s.status # "expired"
            /\ s.status = classifySecret(s.key, config.meta[s.key], Known,
                                         Policy("stale_warning_days", DefaultStaleWarningDays),
                                         Policy("require_expiration", FALSE),
                                         Policy("require_service", FALSE),
                                         DayOf(Now) * MS_PER_DAY).status

-----------------------------------------------------------------------------
(* Properties of the catalog resolver                                      *)

Outcome == get(resolved)
Resolved == isSome(resolved)
Requested == IF "agent" \in DOMAIN agentConfig /\ "secrets" \in DOMAIN agentConfig.agent
             THEN agentConfig.agent.secrets ELSE << >>
CatalogGiven == "catalog" \in DOMAIN agentConfig /\ agentConfig.catalog # ""
CatalogValid == fs.file = "config"
Merging == Resolved /\ isRight(Outcome) /\ "catalogPath" \in DOMAIN Outcome.value

\* C3: in the merge of a catalog entry with the agent's override of the same
\* key, every field the override defines has the override's value, every
\* field it omits has the catalog's value, and there are no other fields;
\* lists and maps are replaced whole.
C3_ShallowOverride ==
    Merging =>
        \A i \in 1..Len(Requested) :
            LET key == Requested[i]
                entry == fs.config.meta[key]
                out == Outcome.value.config.meta[key]
            IN  IF key \in DOMAIN agentConfig.meta
                THEN /\ DOMAIN out = DOMAIN entry \cup DOMAIN agentConfig.meta[key]
                     /\ \A f \in DOMAIN agentConfig.meta[key] : out[f] = agentConfig.meta[key][f]
                     /\ \A f \in DOMAIN entry \ DOMAIN agentConfig.meta[key] : out[f] = entry[f]
                ELSE out = entry

\* catalog capabilities [SELECT, INSERT] overridden with [SELECT] resolve to
\* exactly [SELECT] while the service the override omits stays the catalog's
C3_Witness ==
    /\ Merging
    /\ \E key \in DOMAIN Outcome.value.config.meta :
          /\ key \in DOMAIN agentConfig.meta
          /\ "capabilities" \in DOMAIN fs.config.meta[key]
          /\ fs.config.meta[key].capabilities = <<"SELECT", "INSERT">>
          /\ "capabilities" \in DOMAIN agentConfig.meta[key]
          /\ "service" \notin DOMAIN agentConfig.meta[key]
          /\ Outcome.value.config.meta[key].capabilities = <<"SELECT">>
          /\ Outcome.value.config.meta[key].service = "postgres"

\* C4: when the catalog loads and agent.secrets names a key the catalog's
\* meta lacks, the outcome is the error SecretNotInCatalog carrying the first
\* such key in agent.secrets order, and nothing else: no ResolveResult.
C4_SecretNotInCatalog ==
    (Resolved /\ CatalogGiven /\ CatalogValid
       /\ \E i \in 1..Len(Requested) : Requested[i] \notin DOMAIN fs.config.meta) =>
        LET first == CHOOSE i \in 1..Len(Requested) :
                        /\ Requested[i] \notin DOMAIN fs.config.meta
                        /\ \A j \in 1..(i - 1) : Requested[j] \in DOMAIN fs.config.meta
        IN  /\ isLeft(Outcome)
            /\ Outcome = Left([ _tag        |-> "SecretNotInCatalog",
                                key         |-> Requested[first],
                                catalogPath |-> resolvePath(AgentDir, agentConfig.catalog) ])

\* the first requested key is in the catalog, the second is not: the outcome
\* is the error for the second key, the first key being returned nowhere
C4_Witness ==
    /\ Resolved /\ CatalogGiven /\ CatalogValid
    /\ Len(Requested) = 2
    /\ Requested[1] \in DOMAIN fs.config.meta
    /\ Requested[2] \notin DOMAIN fs.config.meta
    /\ isLeft(Outcome)
    /\ Outcome.error._tag = "SecretNotInCatalog"
    /\ Outcome.error.key = Requested[2]

\* C5: with a catalog reference and no agent section, no agent.secrets or an
\* empty agent.secrets, the outcome is MissingSecretsList and the catalog is
\* not loaded, whatever is stored at the catalog path.
C5_MissingSecretsList ==
    (Resolved /\ CatalogGiven /\ Len(Requested) = 0) =>
        /\ Outcome = Left([_tag |-> "MissingSecretsList"])
        /\ catalogLoads = 0

\* an empty agent.secrets with a catalog reference to a file that does not exist
C5_Witness ==
    /\ Resolved /\ CatalogGiven
    /\ "agent" \in DOMAIN agentConfig
    /\ "secrets" \in DOMAIN agentConfig.agent
    /\ agentConfig.agent.secrets = << >>
    /\ fs = FileAbsent
    /\ isLeft(Outcome)
    /\ Outcome.error._tag = "MissingSecretsList"


\* C13: resolving a config without a catalog field succeeds with the input
\* config itself, empty merged, overridden and warnings, no catalogPath, and
\* without reading any file.
C13_PassThrough ==
    (Resolved /\ "catalog" \notin DOMAIN agentConfig) =>
        /\ isRight(Outcome)
        /\ Outcome.value.config = agentConfig
        /\ Outcome.value.merged = << >>
        /\ Outcome.value.overridden = << >>
        /\ Outcome.value.warnings = << >>
        /\ "catalogPath" \notin DOMAIN Outcome.value
        /\ catalogLoads = 0

\* a config with a secrets list, an own meta and no catalog field was
\* resolved while a loadable catalog file was there
C13_Witness ==
    /\ Resolved
    /\ "catalog" \notin DOMAIN agentConfig
    /\ Requested # << >>
    /\ DOMAIN agentConfig.meta # {}
    /\ CatalogValid
    /\ isRight(Outcome)
    /\ Outcome.value.config.agent.secrets = Requested

\* C14: the config of a catalog resolution has every field of the agent
\* config except catalog, plus agent and meta; its agent section is the
\* agent's without secrets; version, lifecycle, callbacks and tools are the
\* agent's own, absent where the agent has none, whatever the catalog holds.
C14_OutputFrame ==
    Merging =>
        LET out == Outcome.value.config
        IN  /\ DOMAIN out = DOMAIN agentConfig \ {"catalog"}
            /\ "secrets" \notin DOMAIN out.agent
            /\ DOMAIN out.agent = DOMAIN agentConfig.agent \ {"secrets"}
            /\ \A f \in DOMAIN out.agent : out.agent[f] = agentConfig.agent[f]
            /\ \A f \in {"version", "lifecycle", "callbacks", "tools"} :
                  IF f \in DOMAIN agentConfig
                  THEN out[f] = agentConfig[f]
                  ELSE f \notin DOMAIN out

\* a resolution where the agent has callbacks and tools that differ from the
\* catalog's, and no lifecycle although the catalog has one
C14_Witness ==
    /\ Merging
    /\ "lifecycle" \notin DOMAIN agentConfig
    /\ "lifecycle" \in DOMAIN fs.config
    /\ "lifecycle" \notin DOMAIN Outcome.value.config
    /\ "tools" \in DOMAIN agentConfig
    /\ Outcome.value.config.tools = AgentTools
    /\ fs.config.tools # AgentTools
    /\ fs.config.agent # Outcome.value.config.agent

\* C15: merged is agent.secrets as given; overridden is the subsequence of
\* merged whose keys have an entry in the agent's own meta, so every
\* overridden key is merged, in the catalog and in the agent config.
C15_MergedOverridden ==
    Merging =>
        LET merged == Outcome.value.merged
            overridden == Outcome.value.overridden
            Own(key) == key \in DOMAIN agentConfig.meta
        IN  /\ merged = agentConfig.agent.secrets
            /\ overridden = SelectSeq(merged, Own)
            /\ \A i \in 1..Len(overridden) :
                  /\ \E j \in 1..Len(merged) : merged[j] = overridden[i]
                  /\ overridden[i] \in DOMAIN fs.config.meta
                  /\ overridden[i] \in DOMAIN agentConfig.meta

\* two secrets were merged in the order B, A and only A was overridden
C15_Witness ==
    /\ Merging
    /\ Outcome.value.merged = <<"B", "A">>
    /\ Outcome.value.overridden = <<"A">>

-----------------------------------------------------------------------------
(* Properties of the pattern registry                                      *)

MatchedNow == isSome(matched)
MatchOut == get(matched)
Excluded(name) == name \in EXCLUDED_VARS
ExactEntry(name) == EXACT_NAME_PATTERNS[CHOOSE i \in 1..Len(EXACT_NAME_PATTERNS) :
                                            EXACT_NAME_PATTERNS[i].pattern = name]
ShapeRules(value) == { i \in 1..Len(VALUE_SHAPE_PATTERNS) :
                         startsWith(value, VALUE_SHAPE_PATTERNS[i].prefix) }
HasGenericSuffix(name) == \E x \in SuffixNames : endsWith(name, x)

\* C16: the result of matchEnvVar is that of the first rule that applies:
\* none for an excluded name; else the entry's service, matched by exact
\* name; else the service of a prefix the value starts with, confidence high,
\* matched by value shape; else a service, confidence medium, matched by
\* suffix, for a name ending in a generic suffix; else none.
C16_RuleOrder ==
    MatchedNow =>
        IF Excluded(probe.name) THEN MatchOut = None
        ELSE IF probe.name \in ExactNames
        THEN /\ isSome(MatchOut)
             /\ get(MatchOut).envVar = probe.name
             /\ get(MatchOut).value = probe.value
             /\ get(MatchOut).service = Some(ExactEntry(probe.name).service)
             /\ get(MatchOut).matchedBy = "exact:" \o probe.name
        ELSE IF ShapeRules(probe.value) # {}
        THEN /\ isSome(MatchOut)
             /\ get(MatchOut).envVar = probe.name
             /\ get(MatchOut).value = probe.value
             /\ \E i \in ShapeRules(probe.value) :
                   /\ get(MatchOut).service = Some(VALUE_SHAPE_PATTERNS[i].service)
                   /\ get(MatchOut).matchedBy = "value:" \o VALUE_SHAPE_PATTERNS[i].description
             /\ get(MatchOut).confidence = "high"
        ELSE IF HasGenericSuffix(probe.name)
        THEN /\ isSome(MatchOut)
             /\ get(MatchOut).envVar = probe.name
             /\ get(MatchOut).value = probe.value
             /\ isSome(get(MatchOut).service)
             /\ \E x \in SuffixNames : /\ endsWith(probe.name, x)
                                       /\ get(MatchOut).matchedBy = "suffix:" \o x
             /\ get(MatchOut).confidence = "medium"
        ELSE MatchOut = None

\* a name of the exact table that also ends in a generic suffix, with a value
\* of a known shape, was matched by its name
C16_Witness ==
    /\ MatchedNow
    /\ probe.name = "OPENAI_API_KEY"
    /\ HasGenericSuffix(probe.name)
    /\ ShapeRules(probe.value) # {}
    /\ isSome(MatchOut)
    /\ get(MatchOut).matchedBy = "exact:OPENAI_API_KEY"
    /\ get(MatchOut).service = Some("openai")

EnvValueOf(name) == env[CHOOSE j \in 1..Len(env) : env[j].name = name].value

\* C18 as stated: matchEnvVar returns no match when the value is the empty
\* string, and scanEnv returns no entry for a variable whose value is
\* undefined or empty.
C18_Original ==
    /\ (MatchedNow /\ probe.value = "") => MatchOut = None
    /\ isSome(scanned) =>
          \A i \in 1..Len(get(scanned)) :
              /\ isSome(EnvValueOf(get(scanned)[i].envVar))
              /\ get(EnvValueOf(get(scanned)[i].envVar)) # ""

\* C18: scanEnv returns no entry for a variable whose value is undefined or
\* empty; matchEnvVar itself does not test the value for emptiness: with the
\* empty string it matches exactly the names that are not excluded and are
\* in the exact-name table or end in a generic suffix, never by value shape.
C18_EmptyValues ==
    /\ isSome(scanned) =>
          \A i \in 1..Len(get(scanned)) :
              /\ \E j \in 1..Len(env) : env[j].name = get(scanned)[i].envVar
              /\ isSome(EnvValueOf(get(scanned)[i].envVar))
              /\ get(EnvValueOf(get(scanned)[i].envVar)) # ""
    /\ (MatchedNow /\ probe.value = "") =>
          /\ isSome(MatchOut) <=>
                (~Excluded(probe.name) /\ (probe.name \in ExactNames \/ HasGenericSuffix(probe.name)))
          /\ isSome(MatchOut) =>
                /\ get(MatchOut).value = ""
                /\ ~startsWith(get(MatchOut).matchedBy, "value:")

\* an environment whose OPENAI_API_KEY is empty and whose ACME_API_KEY is
\* undefined was scanned to nothing, and matchEnvVar on the empty
\* OPENAI_API_KEY returned a match
C18_Witness ==
    /\ isSome(scanned)
    /\ get(scanned) = << >>
    /\ \E j \in 1..Len(env) : env[j].name = "OPENAI_API_KEY" /\ env[j].value = Some("")
    /\ \E j \in 1..Len(env) : env[j].name = "ACME_API_KEY" /\ env[j].value = None
    /\ MatchedNow
    /\ probe = [name |-> "OPENAI_API_KEY", value |-> ""]
    /\ isSome(MatchOut)

IsProperPrefix(p, q) == Len(p) < Len(q) /\ startsWith(q, p)

\* the rule with the longest prefix among the rules the value fits
LongestRule(value) ==
    VALUE_SHAPE_PATTERNS[CHOOSE i \in ShapeRules(value) :
        \A j \in ShapeRules(value) :
            Len(VALUE_SHAPE_PATTERNS[i].prefix) >= Len(VALUE_SHAPE_PATTERNS[j].prefix)]

\* C19: a prefix of the value-shape table that is a proper prefix of another
\* is listed after it; matchValueShape returns the rule with the longest
\* prefix the value starts with, none if there is none; and the value that
\* is a rule's own prefix returns that rule, so every rule can be returned.
C19_LongestPrefix ==
    /\ \A i, j \in 1..Len(VALUE_SHAPE_PATTERNS) :
          IsProperPrefix(VALUE_SHAPE_PATTERNS[i].prefix, VALUE_SHAPE_PATTERNS[j].prefix) => j < i
    /\ isSome(shape) =>
          /\ ShapeRules(probe.value) = {} <=> get(shape) = None
          /\ ShapeRules(probe.value) # {} =>
                get(shape) = Some([ service     |-> LongestRule(probe.value).service,
                                    description |-> LongestRule(probe.value).description ])
          /\ \A i \in 1..Len(VALUE_SHAPE_PATTERNS) :
                probe.value = VALUE_SHAPE_PATTERNS[i].prefix =>
                    get(shape) = Some([ service     |-> VALUE_SHAPE_PATTERNS[i].service,
                                        description |-> VALUE_SHAPE_PATTERNS[i].description ])

\* a value that starts with sk-ant-, and so with sk- too, was found to be
\* anthropic's
C19_Witness ==
    /\ isSome(shape)
    /\ startsWith(probe.value, "sk-ant-")
    /\ Cardinality(ShapeRules(probe.value)) = 2
    /\ isSome(get(shape))
    /\ get(get(shape)).service = "anthropic"

\* the longest of the suffixes deriveServiceFromName knows that the name ends
\* with, the empty string if it ends with none
LongestSuffix(name) ==
    LET ends == { x \in DeriveSuffixes : endsWith(name, x) }
    IN  IF ends = {} THEN ""
        ELSE CHOOSE x \in ends : \A y \in ends : Len(x) >= Len(y)

\* service is name without its longest known suffix, in lower case, with a
\* hyphen for every underscore
IsDerivedFrom(service, name) ==
    /\ Len(service) = Len(name) - Len(LongestSuffix(name))
    /\ \A i \in 1..Len(service) :
          charAt(service, i) = ( IF charAt(name, i) = "_" THEN "-"
                                 ELSE IF indexIn(UpperCase, charAt(name, i)) > 0
                                      THEN charAt(LowerCase, indexIn(UpperCase, charAt(name, i)))
                                      ELSE charAt(name, i) )

\* C20: deriveServiceFromName returns the name with the longest known suffix
\* it ends with removed once, lower-cased and hyphenated, and that is the
\* service of a generic-suffix match of matchEnvVar.
C20_DerivedService ==
    /\ isSome(derived) => IsDerivedFrom(get(derived), probe.name)
    /\ (MatchedNow /\ isSome(MatchOut) /\ startsWith(get(MatchOut).matchedBy, "suffix:")) =>
          /\ isSome(get(MatchOut).service)
          /\ IsDerivedFrom(get(get(MatchOut).service), probe.name)
          /\ LongestSuffix(probe.name) # ""

\* MY_APP_WEBHOOK_SECRET, which ends with _SECRET and _WEBHOOK_SECRET, was
\* matched by suffix and its service derived as my-app
C20_Witness ==
    /\ probe.name = "MY_APP_WEBHOOK_SECRET"
    /\ derived = Some("my-app")
    /\ MatchedNow
    /\ isSome(MatchOut)
    /\ get(MatchOut).matchedBy = "suffix:_SECRET"
    /\ get(MatchOut).service = Some("my-app")

\* the tier of a confidence level: high first
TierOf(r) == IF r.confidence = "high" THEN 0 ELSE IF r.confidence = "medium" THEN 1 ELSE 2

C26_ResolvedKeys ==
    Merging =>
        LET out == Outcome.value.config.meta
            requested == { Requested[i] : i \in 1..Len(Requested) }
        IN  /\ DOMAIN out = requested
            /\ \A k \in DOMAIN fs.config.meta \ requested : k \notin DOMAIN out
            /\ \A k \in DOMAIN agentConfig.meta \ requested : k \notin DOMAIN out

\* one key was requested while the catalog and the agent's own meta both
\* hold another one, which the resolved meta lacks
C26_Witness ==
    /\ Merging
    /\ Requested = <<"A">>
    /\ "B" \in DOMAIN fs.config.meta
    /\ "B" \in DOMAIN agentConfig.meta
    /\ DOMAIN Outcome.value.config.meta = {"A"}

-----------------------------------------------------------------------------
(* Properties of the drift checker                                         *)

Checked == isSome(checked)

\* the variable is live with a value that is set, and matchEnvVar recognises it
CredentialShaped(i) ==
    /\ isSome(env[i].value)
    /\ get(env[i].value) # ""
    /\ matchEnvVar(env[i].name, get(env[i].value)) # None

\* C22: envCheck reports is_clean exactly when every key of config.meta is
\* live with a non-empty value and every live variable the pattern registry
\* recognises is a key of config.meta; a tracked key whose live value is the
\* empty string is reported missing_from_env.
C22_IsClean ==
    Checked =>
        LET r == get(checked)
        IN  /\ r.is_clean <=>
                  /\ \A k \in DOMAIN config.meta :
                        \E i \in 1..Len(env) :
                            env[i].name = k /\ env[i].value \notin { None, Some("") }
                  /\ \A i \in 1..Len(env) : CredentialShaped(i) => env[i].name \in DOMAIN config.meta
            /\ \A i \in 1..Len(env) :
                  (env[i].name \in DOMAIN config.meta /\ env[i].value = Some("")) =>
                      \E j \in 1..Len(r.entries) :
                          r.entries[j].envVar = env[i].name /\ r.entries[j].status = "missing_from_env"
            /\ r.is_clean <=>
                  \A j \in 1..Len(r.entries) : r.entries[j].status = "tracked"

\* a clean check of a tracked credential beside a live variable that is no credential
C22_Witness ==
    /\ Checked
    /\ get(checked).is_clean
    /\ get(checked).tracked_and_present > 0
    /\ \E i \in 1..Len(env) : env[i].name \notin DOMAIN config.meta

\* a check that is unclean only because a tracked key is set to the empty string
C22_WitnessEmpty ==
    /\ Checked
    /\ ~get(checked).is_clean
    /\ get(checked).untracked_credentials = 0
    /\ \A k \in DOMAIN config.meta : \E i \in 1..Len(env) : env[i].name = k /\ isSome(env[i].value)

-----------------------------------------------------------------------------
(* Properties of boot                                                      *)

Booted == isSome(booted)
BootOut == get(booted)

\* the config file loads and the agent's identity, if it names one, unwraps
BootLoads ==
    /\ configFile.file = "config"
    /\ \/ "agent" \notin DOMAIN configFile.config
       \/ "identity" \notin DOMAIN configFile.config.agent
       \/ identity = "ok"

BootFailedAudit == isLeft(BootOut) /\ BootOut.error._tag = "AuditFailed"

\* the audit a boot ran: the one of its BootResult or of its AuditFailed error
BootAudit == IF isRight(BootOut) THEN BootOut.value.audit ELSE BootOut.error.audit

\* C23: bootSafe resolves the catalog before it audits: for a config with a
\* catalog and agent.secrets, a missing catalog file makes it return Left
\* CatalogNotFound, and when the catalog resolves the audit counts exactly
\* the requested secrets.
C23_ResolvesCatalog ==
    (/\ Booted
     /\ BootLoads
     /\ hasCatalog(configFile.config)
     /\ ~lacksSecretsList(configFile.config)) =>
        /\ fs = FileAbsent => (isLeft(BootOut) /\ BootOut.error._tag = "CatalogNotFound")
        /\ isRight(resolveConfig(configFile.config, AgentDir, fs).result) =>
              BootAudit.total = Len(configFile.config.agent.secrets)

\* C24: a bootSafe call whose config loads and whose identity unwraps returns
\* Left AuditFailed exactly when its audit counts an expired secret,
\* failOnExpired is not false and warnOnly is not true; with expired secrets
\* and warnOnly true it succeeds with a warn-only warning; without an expired
\* secret it never fails, whatever is missing or expiring soon.
C24_AuditFailed ==
    (Booted /\ BootLoads) =>
        /\ isRight(BootOut) \/ BootFailedAudit
        /\ BootFailedAudit <=>
              /\ BootAudit.expired > 0
              /\ Field(bootOpts, "failOnExpired") # Some(FALSE)
              /\ Field(bootOpts, "warnOnly") # Some(TRUE)
        /\ BootAudit.expired =
              Cardinality({ k \in DOMAIN configFile.config.meta :
                              /\ "expires" \in DOMAIN configFile.config.meta[k]
                              /\ DateUTC(configFile.config.meta[k].expires) < clock })
        /\ (BootAudit.expired > 0 /\ Field(bootOpts, "warnOnly") = Some(TRUE)) =>
              /\ isRight(BootOut)
              /\ \E i \in 1..Len(BootOut.value.warnings) :
                    BootOut.value.warnings[i].msg = "secret(s) have expired (warn-only mode)"

\* a boot that fails on an expired secret with no option set, beside a missing one
C24_Witness ==
    /\ Booted
    /\ BootLoads
    /\ BootFailedAudit
    /\ bootOpts = << >>
    /\ BootAudit.missing > 0

\* a boot in warn-only mode that succeeds over an expired secret
C24_WitnessWarnOnly ==
    /\ Booted
    /\ BootLoads
    /\ isRight(BootOut)
    /\ BootAudit.expired > 0
    /\ Field(bootOpts, "warnOnly") = Some(TRUE)
    /\ Field(bootOpts, "failOnExpired") # Some(FALSE)

ToSet(seq) == { seq[i] : i \in 1..Len(seq) }

\* C30: a successful boot puts each key of config.meta in exactly one of
\* injected and skipped, and returns secrets for exactly the injected keys,
\* the meta keys the export holds; a bootSafe call changes process.env only
\* when it succeeds with inject not false, and then only at injected keys.
C30_InjectFrame ==
    [][ LET out == get(booted')
            keys == DOMAIN configFile.config.meta
        IN  /\ isRight(out) =>
                  /\ ToSet(out.value.injected) \cup ToSet(out.value.skipped) = keys
                  /\ ToSet(out.value.injected) \cap ToSet(out.value.skipped) = {}
                  /\ Len(out.value.injected) + Len(out.value.skipped) = Cardinality(keys)
                  /\ DOMAIN out.value.secrets = ToSet(out.value.injected)
                  /\ ToSet(out.value.injected) =
                        IF fnoxCli.available /\ isRight(fnoxCli.export)
                        THEN keys \cap DOMAIN fnoxCli.export.value ELSE {}
            /\ processEnv' # processEnv =>
                  /\ isRight(out)
                  /\ Field(bootOpts, "inject") # Some(FALSE)
            /\ DOMAIN processEnv \subseteq DOMAIN processEnv'
            /\ \A k \in DOMAIN processEnv' :
                  (k \notin DOMAIN processEnv \/ processEnv'[k] # processEnv[k]) =>
                      /\ isRight(out)
                      /\ k \in ToSet(out.value.injected)
                      /\ processEnv'[k] = out.value.secrets[k] ]_vars

\* a boot that injected one key over its old value and skipped another
C30_Witness ==
    /\ Booted
    /\ isRight(BootOut)
    /\ Len(BootOut.value.injected) > 0
    /\ Len(BootOut.value.skipped) > 0
    /\ processEnv # BootEnv
    /\ \A k \in ToSet(BootOut.value.injected) : processEnv[k] = BootOut.value.secrets[k]

\* a boot with inject false that succeeded with secrets and left process.env alone
C30_WitnessNoInject ==
    /\ Booted
    /\ isRight(BootOut)
    /\ Len(BootOut.value.injected) > 0
    /\ Field(bootOpts, "inject") = Some(FALSE)
    /\ processEnv = BootEnv

-----------------------------------------------------------------------------
(* Properties of the audit command                                         *)

Exited == isSome(exitCode)

\* the audit of the whole config at the time of the command
FullAudit == computeAudit(config, None, None, clock)

\* the aggregate status of the full audit, stated from its secrets
FullStatus ==
    LET all == { FullAudit.secrets[i] : i \in 1..Len(FullAudit.secrets) }
    IN  IF \E s \in all : s.status \in {"expired", "missing"} THEN "critical"
        ELSE IF \E s \in all : s.status # "healthy" THEN "degraded"
        ELSE "healthy"

C25_WitnessLenient ==
    /\ Exited
    /\ "strict" \notin DOMAIN auditOpts
    /\ FullStatus = "degraded"
    /\ get(exitCode) = 0

====
